---- MODULE Spec2Model ----
(***************************************************************************)
(* A model of pylon: the configuration loader (internal/config), the      *)
(* calendar client (internal/cal), the Discord client (internal/discord)  *)
(* and the command line that drives them.                                 *)
(*                                                                         *)
(* A Go string is a sequence of characters.  To keep the alphabet small a *)
(* character is one of the punctuation marks the parser looks at (" ",    *)
(* "#", "[", "]", "=") or a whole word ("cal", "url", ...), which stands  *)
(* for a run of letters none of which the parser inspects.  The empty     *)
(* string is << >>.                                                        *)
(***************************************************************************)
EXTENDS Integers, Sequences, FiniteSets, TLC

VARIABLES
    parser,   \* one run of Config.parse: the scanner loop and its result
    loader,   \* one invocation up to the first client call: Load and its caller
    calcall,  \* one call of a calendar client operation
    discall,  \* one call of a Discord client operation, or one `pylon discord read`
    fmtcall,  \* one call of discord.FormatMessages or of Author.DisplayName
    cli       \* one run of main: the arguments, and how far the command got

vars == <<parser, loader, calcall, discall, fmtcall, cli>>

(***************************************************************************)
(* Bounds of the model.                                                    *)
(***************************************************************************)
\* Lines the scanner delivers to one run of parse.
MaxLines == 3
\* Lines of ~/.pylonrc in one invocation of Load.
MaxRcLines == 3
\* Messages in a response to ReadMessages.
MaxMsgs == 3
\* Channels in a response to ListChannels.
MaxChannels == 3
\* Arguments of `pylon discord read` after "read".
MaxArgs == 2
\* The messages of one call of FormatMessages.
MaxFormat == 2
\* The lines of a file handed to parse whole.
MaxBlockLines == 4
\* The flags of one `pylon cal event add`, a flag with its value counting once.
MaxFlags == 4

(***************************************************************************)
(* package strings                                                         *)
(***************************************************************************)
EmptyStr == << >>

IsSpace(ch) == ch = " "

RECURSIVE TrimLeft(_)
TrimLeft(s) ==
    IF s # << >> /\ IsSpace(Head(s)) THEN TrimLeft(Tail(s)) ELSE s

RECURSIVE TrimRight(_)
TrimRight(s) ==
    IF s # << >> /\ IsSpace(s[Len(s)]) THEN TrimRight(SubSeq(s, 1, Len(s) - 1)) ELSE s

\* strings.TrimSpace
TrimSpace(s) == TrimRight(TrimLeft(s))

\* strings.HasPrefix
HasPrefix(s, p) == Len(s) >= Len(p) /\ SubSeq(s, 1, Len(p)) = p

\* strings.HasSuffix
HasSuffix(s, p) == Len(s) >= Len(p) /\ SubSeq(s, Len(s) - Len(p) + 1, Len(s)) = p

\* strings.Index for a one-character separator, 1-based; 0 when absent.
Index(s, ch) ==
    IF \E i \in 1..Len(s) : s[i] = ch
    THEN CHOOSE i \in 1..Len(s) : s[i] = ch /\ \A j \in 1..(i - 1) : s[j] # ch
    ELSE 0

\* The last position of ch in s, 1-based; 0 when absent.
LastIndex(s, ch) ==
    IF \E i \in 1..Len(s) : s[i] = ch
    THEN CHOOSE i \in 1..Len(s) : s[i] = ch /\ \A j \in (i + 1)..Len(s) : s[j] # ch
    ELSE 0

\* A mutant of SplitN2: the line is cut at its last separator.
SplitAtLast(s, sep) ==
    LET i == LastIndex(s, sep) IN
    IF i = 0 THEN <<s>> ELSE <<SubSeq(s, 1, i - 1), SubSeq(s, i + 1, Len(s))>>

\* strings.SplitN(s, sep, 2): at most two parts, cut at the first separator.
SplitN2(s, sep) ==
    LET i == Index(s, sep) IN
    IF i = 0 THEN <<s>> ELSE <<SubSeq(s, 1, i - 1), SubSeq(s, i + 1, Len(s))>>

(***************************************************************************)
(* package config                                                          *)
(***************************************************************************)
Fields == {"CalURL", "DiscordWebhook", "DiscordBotToken", "DiscordGuildID", "DiscordChannelID"}

\* The Config that Load starts from.
DefaultConfig ==
    [CalURL |-> <<"http://localhost:8085">>,
     DiscordWebhook |-> EmptyStr,
     DiscordBotToken |-> EmptyStr,
     DiscordGuildID |-> EmptyStr,
     DiscordChannelID |-> EmptyStr]

\* A mutant of set: the section is not looked at.
setAnySection(c, section, key, value) ==
    CASE key = <<"url">> -> [c EXCEPT !.CalURL = value]
      [] key = <<"webhook">> -> [c EXCEPT !.DiscordWebhook = value]
      [] key = <<"bot_token">> -> [c EXCEPT !.DiscordBotToken = value]
      [] key = <<"guild_id">> -> [c EXCEPT !.DiscordGuildID = value]
      [] key = <<"channel_id">> -> [c EXCEPT !.DiscordChannelID = value]
      [] OTHER -> c

\* A mutant of set: a value is appended to the field instead of replacing it.
setAppend(c, section, key, value) ==
    CASE section = <<"cal">> /\ key = <<"url">> -> [c EXCEPT !.CalURL = @ \o value]
      [] section = <<"discord">> /\ key = <<"webhook">> -> [c EXCEPT !.DiscordWebhook = @ \o value]
      [] section = <<"discord">> /\ key = <<"bot_token">> -> [c EXCEPT !.DiscordBotToken = @ \o value]
      [] section = <<"discord">> /\ key = <<"guild_id">> -> [c EXCEPT !.DiscordGuildID = @ \o value]
      [] section = <<"discord">> /\ key = <<"channel_id">> -> [c EXCEPT !.DiscordChannelID = @ \o value]
      [] OTHER -> c

\* Config.set: the two nested switches, with no default branch.
\* A mutant of set: a field that no longer holds its default is not assigned
\* again, so the first assignment stands.
setOnce(c, section, key, value) ==
    LET n ==
        CASE section = <<"cal">> /\ key = <<"url">> -> [c EXCEPT !.CalURL = value]
        [] section = <<"discord">> /\ key = <<"webhook">> -> [c EXCEPT !.DiscordWebhook = value]
        [] section = <<"discord">> /\ key = <<"bot_token">> -> [c EXCEPT !.DiscordBotToken = value]
        [] section = <<"discord">> /\ key = <<"guild_id">> -> [c EXCEPT !.DiscordGuildID = value]
        [] section = <<"discord">> /\ key = <<"channel_id">> -> [c EXCEPT !.DiscordChannelID = value]
        [] OTHER -> c
    IN [f \in Fields |-> IF c[f] # DefaultConfig[f] THEN c[f] ELSE n[f]]

set(c, section, key, value) ==
    CASE section = <<"cal">> /\ key = <<"url">> -> [c EXCEPT !.CalURL = value]
      [] section = <<"discord">> /\ key = <<"webhook">> -> [c EXCEPT !.DiscordWebhook = value]
      [] section = <<"discord">> /\ key = <<"bot_token">> -> [c EXCEPT !.DiscordBotToken = value]
      [] section = <<"discord">> /\ key = <<"guild_id">> -> [c EXCEPT !.DiscordGuildID = value]
      [] section = <<"discord">> /\ key = <<"channel_id">> -> [c EXCEPT !.DiscordChannelID = value]
      [] OTHER -> c

\* parse, the line the loop works on.
lineOf(text) == TrimSpace(text)

\* parse: "Skip empty lines and comments."
isSkipped(line) == line = EmptyStr \/ HasPrefix(line, <<"#">>)

\* parse: "Section header."
isHeader(line) == HasPrefix(line, <<"[">>) /\ HasSuffix(line, <<"]">>)

\* parse: the section a header line names, line[1 : len(line)-1] trimmed.
headerSection(line) == TrimSpace(SubSeq(line, 2, Len(line) - 1))

\* parse: parts := strings.SplitN(line, "=", 2)
partsOf(line) == SplitN2(line, "=")

\* parse: key := strings.TrimSpace(parts[0])
keyOf(parts) == TrimSpace(parts[1])

\* parse: value := strings.TrimSpace(parts[1])
valueOf(parts) == TrimSpace(parts[2])

\* Whether this iteration of the loop reaches c.set.
reachesSet(text) ==
    LET line == lineOf(text) IN
    ~isSkipped(line) /\ ~isHeader(line) /\ Len(partsOf(line)) = 2

\* The arguments of the c.set call of this iteration.
setArgs(section, text) ==
    LET parts == partsOf(lineOf(text)) IN
    [section |-> section, key |-> keyOf(parts), value |-> valueOf(parts)]

\* A mutant of scanIter: the header of an unknown section is passed over, and
\* the section before it stays the current one.
scanIterKnownHeaders(ps, text) ==
    LET line == lineOf(text) IN
    IF isSkipped(line) THEN ps
    ELSE IF isHeader(line)
    THEN (IF headerSection(line) \in { <<"cal">>, <<"discord">> }
          THEN [ps EXCEPT !.section = headerSection(line)] ELSE ps)
    ELSE IF Len(partsOf(line)) # 2 THEN ps
    ELSE LET a == setArgs(ps.section, text) IN
         [ps EXCEPT !.cfg = set(ps.cfg, a.section, a.key, a.value)]

\* One iteration of the loop of parse on the scanner's text; ps = [cfg, section].
scanIter(ps, text) ==
    LET line == lineOf(text) IN
    IF isSkipped(line) THEN ps
    ELSE IF isHeader(line) THEN [ps EXCEPT !.section = headerSection(line)]
    ELSE IF Len(partsOf(line)) # 2 THEN ps
    ELSE LET a == setArgs(ps.section, text) IN
         [ps EXCEPT !.cfg = set(ps.cfg, a.section, a.key, a.value)]

\* The loop of parse over all the lines the scanner delivers.
RECURSIVE scanAll(_, _)
scanAll(ps, lines) ==
    IF lines = << >> THEN ps ELSE scanAll(scanIter(ps, Head(lines)), Tail(lines))

\* A mutant of parseErr: a line that is neither a header nor key = value is an error.
parseErrStrict(lines, readErr) ==
    IF readErr \/ \E i \in 1..Len(lines) :
            LET line == lineOf(lines[i]) IN
            ~isSkipped(line) /\ ~isHeader(line) /\ Len(partsOf(line)) # 2
    THEN "error" ELSE "nil"

\* parse: return scanner.Err() -- nil unless the reader failed.
parseErr(lines, readErr) == IF readErr THEN "error" ELSE "nil"

\* Config.parse on a reader that delivers `lines` and then ends (readErr: fails).
parse(c, lines, readErr) ==
    [cfg |-> scanAll([cfg |-> c, section |-> EmptyStr], lines).cfg,
     err |-> parseErr(lines, readErr)]

\* The zero Config, which stands in the model for the nil *Config.
ZeroConfig ==
    [CalURL |-> EmptyStr,
     DiscordWebhook |-> EmptyStr,
     DiscordBotToken |-> EmptyStr,
     DiscordGuildID |-> EmptyStr,
     DiscordChannelID |-> EmptyStr]

\* The environment variable applyEnv reads for each field.
EnvName(f) ==
    CASE f = "CalURL" -> "PYLON_CAL_URL"
      [] f = "DiscordWebhook" -> "PYLON_DISCORD_WEBHOOK"
      [] f = "DiscordBotToken" -> "PYLON_DISCORD_BOT_TOKEN"
      [] f = "DiscordGuildID" -> "PYLON_DISCORD_GUILD_ID"
      [] f = "DiscordChannelID" -> "PYLON_DISCORD_CHANNEL_ID"

\* os.Getenv: the value of a variable of the environment, "" when it is unset.
Getenv(env, name) == IF name \in DOMAIN env THEN env[name] ELSE EmptyStr

\* A mutant of applyEnv: a variable that is set overrides, even when it is empty.
applyEnvWhenSet(c, env) ==
    [f \in Fields |-> IF EnvName(f) \in DOMAIN env THEN env[EnvName(f)] ELSE c[f]]

\* Config.applyEnv: five times "if v := os.Getenv(NAME); v != "" { field = v }".
applyEnv(c, env) ==
    [f \in Fields |-> IF Getenv(env, EnvName(f)) # EmptyStr
                      THEN Getenv(env, EnvName(f)) ELSE c[f]]

\* A mutant of loadFile: a missing file or home directory is an error.
loadFileStrict(c, world) ==
    IF world.home = "err" THEN [cfg |-> c, err |-> "home"]
    ELSE IF world.rc = "missing" THEN [cfg |-> c, err |-> "open"]
    ELSE IF world.rc = "denied" THEN [cfg |-> c, err |-> "open"]
    ELSE parse(c, world.file, world.readErr)

\* Config.loadFile.  world.home is the outcome of os.UserHomeDir, world.rc that
\* of os.Open(~/.pylonrc), world.file and world.readErr what the reader delivers.
loadFile(c, world) ==
    IF world.home = "err" THEN [cfg |-> c, err |-> "nil"]
    ELSE IF world.rc = "missing" THEN [cfg |-> c, err |-> "nil"]
    ELSE IF world.rc = "denied" THEN [cfg |-> c, err |-> "open"]
    ELSE parse(c, world.file, world.readErr)

\* A mutant of Load: the error of loadFile is dropped.
LoadIgnoringError(world) ==
    [nil |-> FALSE, cfg |-> applyEnv(loadFile(DefaultConfig, world).cfg, world.env),
     err |-> "nil", envApplied |-> TRUE]

\* config.Load: (nil, err) when loadFile fails, else the Config after applyEnv.
\* envApplied records whether cfg.applyEnv() was reached.
Load(world) ==
    LET r == loadFile(DefaultConfig, world) IN
    IF r.err # "nil"
    THEN [nil |-> TRUE, cfg |-> ZeroConfig, err |-> r.err, envApplied |-> FALSE]
    ELSE [nil |-> FALSE, cfg |-> applyEnv(r.cfg, world.env), err |-> "nil",
          envApplied |-> TRUE]

(***************************************************************************)
(* package encoding/json, as far as the clients use it.  A JSON text is a   *)
(* sequence of tokens: the punctuation "{", "}", "[", "]", ":", ",",       *)
(* string literals (a token that starts with a double quote), the numbers  *)
(* "0", "2" and "5", "true" and "null".  Objects are flat: a member's      *)
(* value is a scalar.  Any other token ("boom") is not JSON.               *)
(***************************************************************************)
\* The string literals of the model and the Go string each one denotes.
StringLiterals ==
    { "\"error\"", "\"Error\"", "\"message\"", "\"x\"", "\"\"",
      "\"id\"", "\"ID\"", "\"name\"", "\"CreatedAt\"", "\"f1\"",
      "\"2026-02-18T10:30:00Z\"", "\"2026-02-18T10:31:00Z\"",
      "\"2026-02-18T10:32:00Z\"", "\"content\"", "\"timestamp\"", "\"type\"",
      "\"author\"", "\"1\"", "\"2\"", "\"3\"", "\"hi\"" }

Unquote(t) ==
    CASE t = "\"error\"" -> <<"error">>
      [] t = "\"Error\"" -> <<"Error">>
      [] t = "\"message\"" -> <<"message">>
      [] t = "\"x\"" -> <<"x">>
      [] t = "\"\"" -> EmptyStr
      [] t = "\"id\"" -> <<"id">>
      [] t = "\"ID\"" -> <<"ID">>
      [] t = "\"name\"" -> <<"name">>
      [] t = "\"CreatedAt\"" -> <<"CreatedAt">>
      [] t = "\"f1\"" -> <<"f1">>
      [] t = "\"2026-02-18T10:30:00Z\"" -> <<"2026-02-18T10:30:00Z">>
      [] t = "\"2026-02-18T10:31:00Z\"" -> <<"2026-02-18T10:31:00Z">>
      [] t = "\"2026-02-18T10:32:00Z\"" -> <<"2026-02-18T10:32:00Z">>
      [] t = "\"content\"" -> <<"content">>
      [] t = "\"timestamp\"" -> <<"timestamp">>
      [] t = "\"type\"" -> <<"type">>
      [] t = "\"author\"" -> <<"author">>
      [] t = "\"1\"" -> <<"1">>
      [] t = "\"2\"" -> <<"2">>
      [] t = "\"3\"" -> <<"3">>
      [] t = "\"hi\"" -> <<"hi">>

\* strings.ToLower on the member names of the model.
Lower(k) ==
    CASE k = <<"Error">> -> <<"error">>
      [] k = <<"ID">> -> <<"id">>
      [] k = <<"Name">> -> <<"name">>
      [] k = <<"Token">> -> <<"token">>
      [] k = <<"URL">> -> <<"url">>
      [] k \in {<<"CreatedAt">>, <<"UpdatedAt">>, <<"FeedID">>, <<"Summary">>,
                <<"Description">>, <<"Location">>, <<"Start">>, <<"End">>,
                <<"AllDay">>, <<"Deadline">>, <<"Status">>, <<"Categories">>}
           -> <<"lower", k[1]>>
      [] OTHER -> k

\* The match of a member name with a field's name: exact, or ignoring case.
EqualFold(k, name) == Lower(k) = Lower(name)

\* The kind of a scalar token: "string", "number", "bool", "null" or "invalid".
ScalarKind(t) ==
    CASE t \in StringLiterals -> "string"
      [] t \in {"0", "2", "5"} -> "number"
      [] t = "true" -> "bool"
      [] t = "null" -> "null"
      [] OTHER -> "invalid"

\* The members of a flat object given the tokens between its braces:
\* key ":" value ("," key ":" value)*.  ok is FALSE when they do not parse.
RECURSIVE ParseMembers(_)
ParseMembers(inner) ==
    IF Len(inner) < 3 \/ inner[1] \notin StringLiterals \/ inner[2] # ":"
       \/ ScalarKind(inner[3]) = "invalid"
    THEN [ok |-> FALSE, m |-> << >>]
    ELSE LET first == [k |-> Unquote(inner[1]), kind |-> ScalarKind(inner[3]),
                       s |-> IF inner[3] \in StringLiterals THEN Unquote(inner[3])
                             ELSE IF ScalarKind(inner[3]) = "number" THEN <<inner[3]>>
                             ELSE EmptyStr]
         IN IF Len(inner) = 3 THEN [ok |-> TRUE, m |-> <<first>>]
            ELSE IF inner[4] # "," THEN [ok |-> FALSE, m |-> << >>]
            ELSE LET rest == ParseMembers(SubSeq(inner, 5, Len(inner)))
                 IN [ok |-> rest.ok, m |-> <<first>> \o rest.m]

NoValue == [kind |-> "invalid", s |-> EmptyStr, m |-> << >>, elems |-> << >>]

\* A flat object from its tokens, braces included.
ParseObject(b) ==
    IF Len(b) < 2 \/ b[1] # "{" \/ b[Len(b)] # "}" THEN NoValue
    ELSE IF Len(b) = 2 THEN [NoValue EXCEPT !.kind = "object"]
    ELSE LET r == ParseMembers(SubSeq(b, 2, Len(b) - 1))
         IN IF r.ok THEN [NoValue EXCEPT !.kind = "object", !.m = r.m] ELSE NoValue

\* The objects of an array given the tokens between its brackets.
RECURSIVE ParseElems(_)
ParseElems(inner) ==
    LET close == Index(inner, "}") IN
    IF close = 0 THEN [ok |-> FALSE, elems |-> << >>]
    ELSE LET obj == ParseObject(SubSeq(inner, 1, close))
         IN IF obj.kind # "object" THEN [ok |-> FALSE, elems |-> << >>]
            ELSE IF close = Len(inner) THEN [ok |-> TRUE, elems |-> <<obj>>]
            ELSE IF inner[close + 1] # "," THEN [ok |-> FALSE, elems |-> << >>]
            ELSE LET rest == ParseElems(SubSeq(inner, close + 2, Len(inner)))
                 IN [ok |-> rest.ok, elems |-> <<obj>> \o rest.elems]

\* The JSON value a whole text denotes; kind "invalid" when it is not JSON.
ParseJSON(b) ==
    IF b = << >> THEN NoValue
    ELSE IF b[1] = "{" THEN ParseObject(b)
    ELSE IF b[1] = "[" THEN
        IF b[Len(b)] # "]" \/ Len(b) < 2 THEN NoValue
        ELSE IF Len(b) = 2 THEN [NoValue EXCEPT !.kind = "array"]
        ELSE LET r == ParseElems(SubSeq(b, 2, Len(b) - 1))
             IN IF r.ok THEN [NoValue EXCEPT !.kind = "array", !.elems = r.elems]
                ELSE NoValue
    ELSE IF Len(b) = 1 /\ ScalarKind(b[1]) # "invalid"
         THEN [NoValue EXCEPT !.kind = ScalarKind(b[1]),
                              !.s = IF b[1] \in StringLiterals THEN Unquote(b[1])
                                    ELSE EmptyStr]
    ELSE NoValue

\* The first JSON value of a stream, which is what Decoder.Decode reads: the
\* text up to the brace or bracket that closes it, or its first token.
FirstValue(b) ==
    IF b = << >> THEN b
    ELSE IF b[1] = "{" THEN
        (IF Index(b, "}") = 0 THEN b ELSE SubSeq(b, 1, Index(b, "}")))
    ELSE IF b[1] = "[" THEN
        (IF Index(b, "]") = 0 THEN b ELSE SubSeq(b, 1, Index(b, "]")))
    ELSE SubSeq(b, 1, 1)

\* Whether a member's value fits a field of the given Go type.  null fits
\* every type (it leaves the field alone); time.Time wants an RFC 3339 string;
\* a struct wants an object, which no member of a flat object is.
Fits(member, type) ==
    \/ member.kind = "null"
    \/ type = "string" /\ member.kind = "string"
    \/ type = "bool" /\ member.kind = "bool"
    \/ type = "int" /\ member.kind = "number"
    \/ type = "time" /\ member.kind = "string" /\ member.s = <<"2026-02-18T10:30:00Z">>

\* The zero value of a field of the given Go type, as the model writes it.
Zero(type) == IF type = "int" THEN <<"0">> ELSE EmptyStr

\* A JSON value stored into a struct whose fields (by JSON name) have the types
\* of `shape`: ok is FALSE on a value that is no object (null apart) or on a
\* member of the wrong type; a field keeps the last member that matches its
\* name, and "" when none does.  Members matching no field are ignored.
IntoStruct(v, shape) ==
    IF v.kind = "null" THEN [ok |-> TRUE, fields |-> [n \in DOMAIN shape |-> Zero(shape[n])]]
    ELSE IF v.kind # "object"
         THEN [ok |-> FALSE, fields |-> [n \in DOMAIN shape |-> Zero(shape[n])]]
    ELSE LET hits(n) == {i \in 1..Len(v.m) : EqualFold(v.m[i].k, n) /\ v.m[i].kind # "null"}
             last(n) == CHOOSE i \in hits(n) : \A j \in hits(n) : j <= i
         IN [ok |-> \A n \in DOMAIN shape : \A i \in 1..Len(v.m) :
                        EqualFold(v.m[i].k, n) => Fits(v.m[i], shape[n]),
             fields |-> [n \in DOMAIN shape |->
                           IF hits(n) = {} THEN Zero(shape[n]) ELSE v.m[last(n)].s]]

\* A JSON value stored into a slice of such structs.
IntoSlice(v, shape) ==
    IF v.kind = "null" THEN [ok |-> TRUE, items |-> << >>]
    ELSE IF v.kind # "array" THEN [ok |-> FALSE, items |-> << >>]
    ELSE [ok |-> \A i \in 1..Len(v.elems) : IntoStruct(v.elems[i], shape).ok,
          items |-> [i \in 1..Len(v.elems) |-> IntoStruct(v.elems[i], shape).fields]]

(***************************************************************************)
(* package cal                                                             *)
(***************************************************************************)
StatusOK == 200
StatusCreated == 201
StatusNoContent == 204

\* The wire shapes: Go type of each field, by its JSON name.
ErrorShape == [a \in {<<"error">>} |-> "string"]

CreateFeedResponseShape ==
    [a \in {<<"id">>, <<"name">>, <<"token">>, <<"url">>} |-> "string"]

FeedShape ==
    [a \in {<<"ID">>, <<"Name">>, <<"Token">>, <<"CreatedAt">>, <<"UpdatedAt">>} |->
        IF a \in {<<"CreatedAt">>, <<"UpdatedAt">>} THEN "time" ELSE "string"]

EventShape ==
    [a \in {<<"ID">>, <<"FeedID">>, <<"Summary">>, <<"Description">>, <<"Location">>,
            <<"URL">>, <<"Start">>, <<"End">>, <<"AllDay">>, <<"Deadline">>,
            <<"Status">>, <<"Categories">>, <<"CreatedAt">>, <<"UpdatedAt">>} |->
        IF a \in {<<"Start">>, <<"End">>, <<"Deadline">>, <<"CreatedAt">>, <<"UpdatedAt">>}
        THEN "time"
        ELSE IF a = <<"AllDay">> THEN "bool" ELSE "string"]

\* The nil error, and the errors of the client: an *APIError, the error of the
\* HTTP transport, of http.NewRequest, and of the JSON decoder.
NoError == [kind |-> "nil", StatusCode |-> 0, Message |-> EmptyStr]
TransportError == [kind |-> "transport", StatusCode |-> 0, Message |-> EmptyStr]
RequestError == [kind |-> "create request", StatusCode |-> 0, Message |-> EmptyStr]
DecodeError == [kind |-> "decode response", StatusCode |-> 0, Message |-> EmptyStr]

\* A mutant of parseError: the error string is taken even when it is empty.
parseErrorAnyString(resp) ==
    LET r == IntoStruct(ParseJSON(resp.body), ErrorShape) IN
    IF r.ok /\ ParseJSON(resp.body).kind = "object"
    THEN [kind |-> "APIError", StatusCode |-> resp.status, Message |-> r.fields[<<"error">>]]
    ELSE [kind |-> "APIError", StatusCode |-> resp.status, Message |-> resp.body]

\* parseError: json.Unmarshal(body, &errResp) == nil && errResp.Error != "".
parseError(resp) ==
    LET r == IntoStruct(ParseJSON(resp.body), ErrorShape) IN
    IF r.ok /\ r.fields[<<"error">>] # EmptyStr
    THEN [kind |-> "APIError", StatusCode |-> resp.status, Message |-> r.fields[<<"error">>]]
    ELSE [kind |-> "APIError", StatusCode |-> resp.status, Message |-> resp.body]

\* What a client operation hands back: the result (nil: none) and the error.
Failed(e) == [nil |-> TRUE, value |-> << >>, err |-> e]
Returned(v) == [nil |-> FALSE, value |-> v, err |-> NoError]

\* json.NewDecoder(resp.Body).Decode(&v) for a struct, and the return on it.
decodeStruct(resp, shape) ==
    LET d == IntoStruct(ParseJSON(FirstValue(resp.body)), shape) IN
    IF ~d.ok THEN Failed(DecodeError) ELSE Returned(d.fields)

\* json.NewDecoder(resp.Body).Decode(&v) for a slice, and the return on it.
decodeSlice(resp, shape) ==
    LET d == IntoSlice(ParseJSON(FirstValue(resp.body)), shape) IN
    IF ~d.ok THEN Failed(DecodeError) ELSE Returned(d.items)

\* Client.CreateFeed after c.post: out is what the HTTP client gave back.
CreateFeed(out) ==
    IF out.kind # "response" THEN Failed(TransportError)
    ELSE IF out.status # StatusCreated THEN Failed(parseError(out))
    ELSE decodeStruct(out, CreateFeedResponseShape)

\* Client.ListFeeds after c.get.
ListFeeds(out) ==
    IF out.kind # "response" THEN Failed(TransportError)
    ELSE IF out.status # StatusOK THEN Failed(parseError(out))
    ELSE decodeSlice(out, FeedShape)

\* A mutant of DeleteFeed: only a status of 400 and above is an error.
DeleteFeedFrom400(out) ==
    IF out.kind = "badurl" THEN Failed(RequestError)
    ELSE IF out.kind # "response" THEN Failed(TransportError)
    ELSE IF out.status >= 400 THEN Failed(parseError(out))
    ELSE Returned(<< >>)

\* A mutant of DeleteFeed: the status expected is 200.
DeleteFeedExpectsOK(out) ==
    IF out.kind = "badurl" THEN Failed(RequestError)
    ELSE IF out.kind # "response" THEN Failed(TransportError)
    ELSE IF out.status # StatusOK THEN Failed(parseError(out))
    ELSE Returned(<< >>)

\* Client.DeleteFeed after c.delete, which fails before sending when
\* http.NewRequest rejects the URL.  It returns an error only; the operation's
\* "result" is the nil error.
DeleteFeed(out) ==
    IF out.kind = "badurl" THEN Failed(RequestError)
    ELSE IF out.kind # "response" THEN Failed(TransportError)
    ELSE IF out.status # StatusNoContent THEN Failed(parseError(out))
    ELSE Returned(<< >>)

\* Client.CreateEvent after c.post.
CreateEvent(out) ==
    IF out.kind # "response" THEN Failed(TransportError)
    ELSE IF out.status # StatusCreated THEN Failed(parseError(out))
    ELSE decodeStruct(out, EventShape)

\* Client.ListEvents after c.get.
ListEvents(out) ==
    IF out.kind # "response" THEN Failed(TransportError)
    ELSE IF out.status # StatusOK THEN Failed(parseError(out))
    ELSE decodeSlice(out, EventShape)

\* Client.DeleteEvent after c.delete.
DeleteEvent(out) ==
    IF out.kind = "badurl" THEN Failed(RequestError)
    ELSE IF out.kind # "response" THEN Failed(TransportError)
    ELSE IF out.status # StatusNoContent THEN Failed(parseError(out))
    ELSE Returned(<< >>)

\* A mutant of SubscribeURL: a "/" that ends the base URL is dropped.
SubscribeURLJoined(c, token) ==
    (IF HasSuffix(c.baseURL, <<"/">>) THEN SubSeq(c.baseURL, 1, Len(c.baseURL) - 1)
     ELSE c.baseURL) \o <<"/cal/">> \o token \o <<".ics">>

\* Client.SubscribeURL
SubscribeURL(c, token) == c.baseURL \o <<"/cal/">> \o token \o <<".ics">>

\* The request each operation builds: method and path (c.baseURL is prefixed).
RequestOf(op, arg) ==
    CASE op = "CreateFeed" -> [method |-> "POST", path |-> <<"/api/feeds">>]
      [] op = "ListFeeds" -> [method |-> "GET", path |-> <<"/api/feeds">>]
      [] op = "DeleteFeed" -> [method |-> "DELETE", path |-> <<"/api/feeds/">> \o arg]
      [] op = "CreateEvent" -> [method |-> "POST", path |-> <<"/api/events">>]
      [] op = "ListEvents" -> [method |-> "GET", path |-> <<"/api/feeds/">> \o arg \o <<"/events">>]
      [] op = "DeleteEvent" -> [method |-> "DELETE", path |-> <<"/api/events/">> \o arg]

(***************************************************************************)
(* package net/http, as the clients see it.  A call of the HTTP client     *)
(* (Get, Post, Do) is one exchange: the request goes out once, and the     *)
(* client hands back a response or an error.                               *)
(***************************************************************************)
\* A mutant of Do: the request is sent again after a transport error.
DoAgainOnError(req, out) ==
    IF out.kind = "transport" THEN <<req, req>> ELSE <<req>>

\* c.httpClient.Do(req) (Get and Post build their request and do the same):
\* the requests the call puts on the network.
Do(req, out) == <<req>>

\* A mutant of bodyAtReturn: the body stays open when the status is an error.
bodyLeftOpenOnError(out) ==
    IF out.kind # "response" THEN "none"
    ELSE IF out.status >= 400 THEN "open" ELSE "closed"

\* The response body when the operation returns: there is none when the HTTP
\* client gave an error; otherwise `defer resp.Body.Close()` was registered
\* right after the error test, and runs on every return that follows.
bodyAtReturn(out) ==
    IF out.kind # "response" THEN "none" ELSE "closed"

\* http.NewRequest accepts the URL: url.Parse rejects an ASCII control
\* character, for which the character "<0x7F>" of the model stands.
ValidURL(url) == \A i \in 1..Len(url) : url[i] # "<0x7F>"

(***************************************************************************)
(* json.Marshal of a Go string.  The characters of the model that the      *)
(* encoder does not copy as they are: the double quote and the backslash   *)
(* (escaped with a backslash), "<" (written as the escape u003c) and       *)
(* "<0xFF>", a byte that is not valid UTF-8 (written as the escape ufffd,  *)
(* the replacement character).                                             *)
(***************************************************************************)
\* A mutant of escapeChar: the double quote is copied as it is.
escapeCharNoQuote(ch) ==
    CASE ch = "\\" -> "\\\\"
      [] ch = "<" -> "\\u003c"
      [] ch = "<0xFF>" -> "\\ufffd"
      [] OTHER -> ch

escapeChar(ch) ==
    CASE ch = "\"" -> "\\\""
      [] ch = "\\" -> "\\\\"
      [] ch = "<" -> "\\u003c"
      [] ch = "<0xFF>" -> "\\ufffd"
      [] OTHER -> ch

\* The JSON string literal of s, one token a character, quotes included.
marshalString(s) ==
    <<"\"">> \o [i \in 1..Len(s) |-> escapeChar(s[i])] \o <<"\"">>

\* json.Marshal(map[string]string{"content": message})
marshalContent(message) ==
    <<"{", "\"content\"", ":">> \o marshalString(message) \o <<"}">>

(***************************************************************************)
(* package discord                                                         *)
(***************************************************************************)
apiBase == <<"https://discord.com/api/v10">>

\* The wire shapes of Message and Channel: Go type of each field, by JSON name.
MessageShape ==
    [a \in {<<"id">>, <<"content">>, <<"timestamp">>, <<"author">>,
            <<"referenced_message">>} |->
        IF a \in {<<"author">>, <<"referenced_message">>} THEN "struct" ELSE "string"]

ChannelShape ==
    [a \in {<<"id">>, <<"name">>, <<"type">>, <<"position">>} |->
        IF a \in {<<"type">>, <<"position">>} THEN "int" ELSE "string"]

\* An error made by fmt.Errorf: its text, and the status code and the body
\* when the text includes them.
DiscordError(text) == [kind |-> text, StatusCode |-> 0, Message |-> EmptyStr]

\* What an operation did: what it returns, the requests it put on the network
\* and the state of the response body at the return.
Outcome(ret, reqs, resp) == [ret |-> ret, reqs |-> reqs, resp |-> resp]

\* A mutant of SendMessage: the webhook URL is not looked at.
SendMessageUnchecked(c, message, out) ==
    LET req == [method |-> "POST", url |-> c.webhookURL,
                Authorization |-> EmptyStr,
                ContentType |-> <<"application/json">>,
                body |-> marshalContent(message)]
    IN IF out.kind # "response"
       THEN Outcome(Failed(DiscordError("request failed")), Do(req, out),
                    bodyAtReturn(out))
       ELSE IF out.status # StatusNoContent /\ out.status # StatusOK
       THEN Outcome(Failed([kind |-> "unexpected status",
                            StatusCode |-> out.status, Message |-> out.body]),
                    Do(req, out), bodyAtReturn(out))
       ELSE Outcome(Returned(<< >>), Do(req, out), bodyAtReturn(out))

\* Client.SendMessage; out is what the HTTP client gives back when called.
SendMessage(c, message, out) ==
    IF c.webhookURL = EmptyStr
    THEN Outcome(Failed(DiscordError("webhook URL not configured")), << >>, "none")
    ELSE LET req == [method |-> "POST", url |-> c.webhookURL,
                     Authorization |-> EmptyStr,
                     ContentType |-> <<"application/json">>,
                     body |-> marshalContent(message)]
         IN IF out.kind # "response"
            THEN Outcome(Failed(DiscordError("request failed")), Do(req, out),
                         bodyAtReturn(out))
            ELSE IF out.status # StatusNoContent /\ out.status # StatusOK
            THEN Outcome(Failed([kind |-> "unexpected status",
                                 StatusCode |-> out.status, Message |-> out.body]),
                         Do(req, out), bodyAtReturn(out))
            ELSE Outcome(Returned(<< >>), Do(req, out), bodyAtReturn(out))

\* A mutant of botGet: the scheme of the Authorization header is Bearer.
botGetBearer(c, url, out) ==
    IF ~ValidURL(url)
    THEN [body |-> << >>, err |-> DiscordError("build request"), reqs |-> << >>,
          resp |-> "none"]
    ELSE LET req == [method |-> "GET", url |-> url,
                     Authorization |-> <<"Bearer ">> \o c.botToken,
                     ContentType |-> EmptyStr, body |-> << >>]
         IN IF out.kind # "response"
            THEN [body |-> << >>, err |-> DiscordError("request failed"),
                  reqs |-> Do(req, out), resp |-> bodyAtReturn(out)]
            ELSE IF out.status # StatusOK
            THEN [body |-> << >>,
                  err |-> [kind |-> "Discord API error", StatusCode |-> out.status,
                           Message |-> out.body],
                  reqs |-> Do(req, out), resp |-> bodyAtReturn(out)]
            ELSE [body |-> out.body, err |-> NoError, reqs |-> Do(req, out),
                  resp |-> bodyAtReturn(out)]

\* Client.botGet: the body of the response, or an error.
botGet(c, url, out) ==
    IF ~ValidURL(url)
    THEN [body |-> << >>, err |-> DiscordError("build request"), reqs |-> << >>,
          resp |-> "none"]
    ELSE LET req == [method |-> "GET", url |-> url,
                     Authorization |-> <<"Bot ">> \o c.botToken,
                     ContentType |-> EmptyStr, body |-> << >>]
         IN IF out.kind # "response"
            THEN [body |-> << >>, err |-> DiscordError("request failed"),
                  reqs |-> Do(req, out), resp |-> bodyAtReturn(out)]
            ELSE IF out.status # StatusOK
            THEN [body |-> << >>,
                  err |-> [kind |-> "Discord API error", StatusCode |-> out.status,
                           Message |-> out.body],
                  reqs |-> Do(req, out), resp |-> bodyAtReturn(out)]
            ELSE [body |-> out.body, err |-> NoError, reqs |-> Do(req, out),
                  resp |-> bodyAtReturn(out)]

\* A mutant of clampLimit: a limit above 100 is capped at 100.
clampLimitCap(limit) ==
    IF limit <= 0 THEN 20 ELSE IF limit > 100 THEN 100 ELSE limit

\* ReadMessages: if limit <= 0 || limit > 100 { limit = 20 }
clampLimit(limit) == IF limit <= 0 \/ limit > 100 THEN 20 ELSE limit

\* fmt.Sprintf("%s/channels/%s/messages?limit=%d", apiBase, channelID, limit)
messagesURL(channelID, limit) ==
    apiBase \o <<"/channels/">> \o channelID \o <<"/messages?limit=">>
        \o <<ToString(limit)>>

\* fmt.Sprintf("%s/guilds/%s/channels", apiBase, guildID)
channelsURL(guildID) == apiBase \o <<"/guilds/">> \o guildID \o <<"/channels">>

\* A mutant of reverse: the messages stay as the server sent them.
reverseNot(msgs) == msgs

\* for i, j := 0, len(msgs)-1; i < j; i, j = i+1, j-1 { swap } (indices from 1)
RECURSIVE reverseFrom(_, _, _)
reverseFrom(msgs, i, j) ==
    IF i < j
    THEN reverseFrom([msgs EXCEPT ![i] = msgs[j], ![j] = msgs[i]], i + 1, j - 1)
    ELSE msgs

reverse(msgs) == reverseFrom(msgs, 1, Len(msgs))

\* Client.ReadMessages
ReadMessages(c, channelID, limit, out) ==
    IF c.botToken = EmptyStr
    THEN Outcome(Failed(DiscordError("bot token not configured")), << >>, "none")
    ELSE IF channelID = EmptyStr
    THEN Outcome(Failed(DiscordError("channel ID required")), << >>, "none")
    ELSE LET g == botGet(c, messagesURL(channelID, clampLimit(limit)), out)
             d == IntoSlice(ParseJSON(g.body), MessageShape)
         IN IF g.err # NoError THEN Outcome(Failed(g.err), g.reqs, g.resp)
            ELSE IF ~d.ok
            THEN Outcome(Failed(DiscordError("parse response")), g.reqs, g.resp)
            ELSE Outcome(Returned(reverse(d.items)), g.reqs, g.resp)

\* A mutant of textChannels: a channel is kept when it follows a kept one.
textChannelsRuns(all) ==
    [i \in 1..Len(SelectSeq(all, LAMBDA ch : ch[<<"type">>] = <<"0">>)) |-> all[i]]

\* for _, ch := range all { if ch.Type == 0 { text = append(text, ch) } }
RECURSIVE textChannels(_)
textChannels(all) ==
    IF all = << >> THEN << >>
    ELSE (IF Head(all)[<<"type">>] = <<"0">> THEN <<Head(all)>> ELSE << >>)
             \o textChannels(Tail(all))

\* Client.ListChannels
ListChannels(c, guildID, out) ==
    IF c.botToken = EmptyStr
    THEN Outcome(Failed(DiscordError("bot token not configured")), << >>, "none")
    ELSE IF guildID = EmptyStr
    THEN Outcome(Failed(DiscordError("guild ID required")), << >>, "none")
    ELSE LET g == botGet(c, channelsURL(guildID), out)
             d == IntoSlice(ParseJSON(g.body), ChannelShape)
         IN IF g.err # NoError THEN Outcome(Failed(g.err), g.reqs, g.resp)
            ELSE IF ~d.ok
            THEN Outcome(Failed(DiscordError("parse response")), g.reqs, g.resp)
            ELSE Outcome(Returned(textChannels(d.items)), g.reqs, g.resp)

(***************************************************************************)
(* discord.FormatMessages.  The code measures and cuts the timestamp by    *)
(* bytes: a timestamp is a sequence of ASCII characters, one token a byte. *)
(* In a name or a content a token is a character ("\n" is the newline,     *)
(* "<0xFF>" a byte that is not valid UTF-8) or a word ("bob", "hi"), which *)
(* stands for a run of letters.                                            *)
(***************************************************************************)
\* A mutant of DisplayName: the username is preferred.
DisplayNameUsernameFirst(a) ==
    IF a.Username # EmptyStr THEN a.Username ELSE a.GlobalName

\* Author.DisplayName
DisplayName(a) == IF a.GlobalName # EmptyStr THEN a.GlobalName ELSE a.Username

\* A mutant of timestampOf: the timestamp is never cut.
timestampWhole(m) == m.Timestamp

\* ts := m.Timestamp; if len(ts) >= 19 { ts = ts[:19] }
timestampOf(m) ==
    IF Len(m.Timestamp) >= 19 THEN SubSeq(m.Timestamp, 1, 19) ELSE m.Timestamp

\* The placeholder "(no text)".
NoText == <<"(", "no", " ", "text", ")">>

\* A mutant of orNoText: empty content stays empty.
orNoTextNever(content) == content

\* if content == "" { content = "(no text)" }
orNoText(content) == IF content = EmptyStr THEN NoText ELSE content

\* What the verb %q writes for one character: the double quote, the
\* backslash and the newline get a backslash escape, a byte that is not valid
\* UTF-8 is written in hexadecimal, a printable character is copied.
quoteChar(ch) ==
    CASE ch = "\"" -> "\\\""
      [] ch = "\\" -> "\\\\"
      [] ch = "\n" -> "\\n"
      [] ch = "<0xFF>" -> "\\xff"
      [] OTHER -> ch

\* The verb %q on a string: strconv.Quote.
Quote(s) == <<"\"">> \o [i \in 1..Len(s) |-> quoteChar(s[i])] \o <<"\"">>

\* A mutant of formatLine: a reply is written as a plain line.
formatLinePlain(m) ==
    <<"[">> \o timestampOf(m) \o <<"]", " ">> \o DisplayName(m.Author)
        \o <<":", " ">> \o orNoText(m.Content) \o <<"\n">>

\* The text one iteration of the loop of FormatMessages writes for m: the
\* Fprintf of the reply form when m.Reference != nil, of the plain form
\* otherwise.
formatLine(m) ==
    IF ~m.Reference.nil
    THEN <<"[">> \o timestampOf(m) \o <<"]", " ">> \o DisplayName(m.Author)
            \o <<" ", "(", "reply", " ", "to", " ">>
            \o DisplayName(m.Reference.Author) \o <<":", " ">>
            \o Quote(orNoText(m.Reference.Content)) \o <<")", ":", " ">>
            \o orNoText(m.Content) \o <<"\n">>
    ELSE <<"[">> \o timestampOf(m) \o <<"]", " ">> \o DisplayName(m.Author)
            \o <<":", " ">> \o orNoText(m.Content) \o <<"\n">>

\* FormatMessages: the builder after the loop over msgs.
RECURSIVE FormatMessages(_)
FormatMessages(msgs) ==
    IF msgs = << >> THEN EmptyStr
    ELSE FormatMessages(SubSeq(msgs, 1, Len(msgs) - 1)) \o formatLine(msgs[Len(msgs)])

(***************************************************************************)
(* package strconv and the "read" case of runDiscord                       *)
(***************************************************************************)
\* strconv.Atoi on the numerals of the model (one character each): a sign is
\* accepted; a text that is no numeral ("abc"), the empty string and a value
\* outside the range of int ("99999999999999999999") are errors.
Atoi(s) ==
    CASE s = <<"-5">> -> [ok |-> TRUE, n |-> -5]
      [] s = <<"0">> -> [ok |-> TRUE, n |-> 0]
      [] s = <<"100">> -> [ok |-> TRUE, n |-> 100]
      [] s = <<"101">> -> [ok |-> TRUE, n |-> 101]
      [] OTHER -> [ok |-> FALSE, n |-> 0]

\* strings.TrimPrefix
TrimPrefix(s, p) == IF HasPrefix(s, p) THEN SubSeq(s, Len(p) + 1, Len(s)) ELSE s

\* n, err := strconv.Atoi(text); if err == nil && n > 0 { count = n }
countFrom(count, text) ==
    IF Atoi(text).ok /\ Atoi(text).n > 0 THEN Atoi(text).n ELSE count

\* The loop over the arguments of `pylon discord read`; args[1] is "read" and
\* the loop starts at args[2] (Go counts them from 0).
RECURSIVE readFlags(_, _, _)
readFlags(args, i, st) ==
    IF i > Len(args) THEN st
    ELSE IF args[i] = <<"--channel">> THEN
        (IF i + 1 <= Len(args)
         THEN readFlags(args, i + 2, [st EXCEPT !.channelID = args[i + 1]])
         ELSE readFlags(args, i + 1, st))
    ELSE IF args[i] = <<"--count">> THEN
        (IF i + 1 <= Len(args)
         THEN readFlags(args, i + 2, [st EXCEPT !.count = countFrom(@, args[i + 1])])
         ELSE readFlags(args, i + 1, st))
    ELSE IF HasPrefix(args[i], <<"--channel=">>) THEN
        readFlags(args, i + 1,
                  [st EXCEPT !.channelID = TrimPrefix(args[i], <<"--channel=">>)])
    ELSE IF HasPrefix(args[i], <<"--count=">>) THEN
        readFlags(args, i + 1,
                  [st EXCEPT !.count = countFrom(@, TrimPrefix(args[i], <<"--count=">>))])
    ELSE readFlags(args, i + 1, st)

\* channelID := cfg.DiscordChannelID; count := 20; and the loop.
readOptions(cfgChannel, args) ==
    readFlags(args, 2, [channelID |-> cfgChannel, count |-> 20])

(***************************************************************************)
(* package main: the calendar commands.  A command-line argument is a       *)
(* string; an argument that starts with "--" has "--" as its first token,  *)
(* and "--url=U" is written <<"--", "url", "=", "U">>.                       *)
(***************************************************************************)
\* strings.Join
RECURSIVE Join(_, _)
Join(elems, sep) ==
    IF elems = << >> THEN EmptyStr
    ELSE IF Len(elems) = 1 THEN elems[1]
    ELSE elems[1] \o sep \o Join(Tail(elems), sep)

\* The loop of runCal over its arguments (Go counts them from 0): the first
\* "--url" that has an argument after it, or the first "--url=...", gives the
\* base URL and is cut out of the arguments.
RECURSIVE urlLoop(_, _, _)
urlLoop(args, i, url) ==
    IF i > Len(args) THEN [url |-> url, rest |-> args]
    ELSE IF args[i] = <<"--", "url">> /\ i + 1 <= Len(args)
    THEN [url |-> args[i + 1],
          rest |-> SubSeq(args, 1, i - 1) \o SubSeq(args, i + 2, Len(args))]
    ELSE IF HasPrefix(args[i], <<"--", "url", "=">>)
    THEN [url |-> TrimPrefix(args[i], <<"--", "url", "=">>),
          rest |-> SubSeq(args, 1, i - 1) \o SubSeq(args, i + 1, Len(args))]
    ELSE urlLoop(args, i + 1, url)

\* A mutant of overrideURL: the override is also stored in the Config.
overrideURLInConfig(cfg, args) ==
    LET r == urlLoop(args, 1, cfg.CalURL)
    IN [cfg |-> [cfg EXCEPT !.CalURL = r.url], url |-> r.url, rest |-> r.rest]

\* runCal: url := cfg.CalURL; rest := args; and the loop.  cfg is what the
\* Config holds afterwards.
overrideURL(cfg, args) ==
    LET r == urlLoop(args, 1, cfg.CalURL)
    IN [cfg |-> cfg, url |-> r.url, rest |-> r.rest]

\* req := &cal.CreateEventRequest{}
ZeroEventRequest ==
    [FeedID |-> EmptyStr, Summary |-> EmptyStr, Description |-> EmptyStr,
     Location |-> EmptyStr, URL |-> EmptyStr, Start |-> EmptyStr, End |-> EmptyStr,
     AllDay |-> FALSE, Deadline |-> EmptyStr, Status |-> EmptyStr,
     Categories |-> EmptyStr]

\* The field a flag of `event add` that takes a value is stored in.
flagField(a) ==
    CASE a = <<"--", "feed">> -> "FeedID"
      [] a = <<"--", "summary">> -> "Summary"
      [] a = <<"--", "start">> -> "Start"
      [] a = <<"--", "end">> -> "End"
      [] a = <<"--", "description">> -> "Description"
      [] a = <<"--", "location">> -> "Location"
      [] a = <<"--", "url">> -> "URL"
      [] a = <<"--", "deadline">> -> "Deadline"
      [] a = <<"--", "status">> -> "Status"
      [] a = <<"--", "categories">> -> "Categories"
      [] OTHER -> "none"

\* How parseEventFlags ends: it returns a request, it calls fatal, or the
\* program panics on an index out of range.
Parsed(kind, req) == [kind |-> kind, req |-> req]

\* The loop of parseEventFlags.  A flag that takes a value does i++ and
\* reads args[i] without looking at len(args).
RECURSIVE eventFlags(_, _, _)
eventFlags(args, i, req) ==
    IF i > Len(args) THEN Parsed("parsed", req)
    ELSE IF flagField(args[i]) # "none"
    THEN (IF i + 1 > Len(args) THEN Parsed("panic", req)
          ELSE eventFlags(args, i + 2,
                          [req EXCEPT ![flagField(args[i])] = args[i + 1]]))
    ELSE IF args[i] = <<"--", "all-day">>
    THEN eventFlags(args, i + 1, [req EXCEPT !.AllDay = TRUE])
    ELSE IF HasPrefix(args[i], <<"--">>) THEN Parsed("fatal: unknown flag", req)
    ELSE eventFlags(args, i + 1,
                    IF req.Summary = EmptyStr THEN [req EXCEPT !.Summary = args[i]]
                    ELSE req)

\* parseEventFlags: the loop, then the three required fields.
parseEventFlags(args) ==
    LET r == eventFlags(args, 1, ZeroEventRequest) IN
    IF r.kind # "parsed" THEN r
    ELSE IF r.req.FeedID = EmptyStr THEN Parsed("fatal: --feed is required", r.req)
    ELSE IF r.req.Summary = EmptyStr THEN Parsed("fatal: --summary is required", r.req)
    ELSE IF r.req.Start = EmptyStr THEN Parsed("fatal: --start is required", r.req)
    ELSE Parsed("request", r.req)

\* parseFeedIDFlag
RECURSIVE parseFeedIDFlag(_, _)
parseFeedIDFlag(args, i) ==
    IF i > Len(args) THEN EmptyStr
    ELSE IF args[i] = <<"--", "feed">> /\ i + 1 <= Len(args) THEN args[i + 1]
    ELSE IF HasPrefix(args[i], <<"--", "feed", "=">>)
    THEN TrimPrefix(args[i], <<"--", "feed", "=">>)
    ELSE parseFeedIDFlag(args, i + 1)

\* One member of a JSON object whose value is a string.
member(name, value) == <<name, ":">> \o marshalString(value)

\* The members json.Marshal writes for a struct: fields is the list of the
\* members in the order of the struct, an omitted one being << >>.
RECURSIVE joinMembers(_)
joinMembers(fields) ==
    IF fields = << >> THEN << >>
    ELSE IF fields[1] = << >> THEN joinMembers(Tail(fields))
    ELSE IF joinMembers(Tail(fields)) = << >> THEN fields[1]
    ELSE fields[1] \o <<",">> \o joinMembers(Tail(fields))

\* A member with omitempty.
omitempty(name, value) == IF value = EmptyStr THEN << >> ELSE member(name, value)

\* json.Marshal(req) for a *CreateEventRequest.
marshalEvent(req) ==
    <<"{">>
    \o joinMembers(<<member("\"feed_id\"", req.FeedID),
                     member("\"summary\"", req.Summary),
                     omitempty("\"description\"", req.Description),
                     omitempty("\"location\"", req.Location),
                     omitempty("\"url\"", req.URL),
                     member("\"start\"", req.Start),
                     omitempty("\"end\"", req.End),
                     IF req.AllDay THEN <<"\"all_day\"", ":", "true">> ELSE << >>,
                     omitempty("\"deadline\"", req.Deadline),
                     omitempty("\"status\"", req.Status),
                     omitempty("\"categories\"", req.Categories)>>)
    \o <<"}">>

\* json.Marshal(payload) in CreateFeed: the keys of a map come sorted.
marshalFeed(name, slug) ==
    <<"{">>
    \o joinMembers(<<member("\"name\"", name),
                     IF slug # EmptyStr THEN member("\"slug\"", slug) ELSE << >>>>)
    \o <<"}">>

\* What the operation hands back for the outcome out.
calReturn(op, out) ==
    CASE op = "CreateFeed" -> CreateFeed(out)
      [] op = "ListFeeds" -> ListFeeds(out)
      [] op = "DeleteFeed" -> DeleteFeed(out)
      [] op = "CreateEvent" -> CreateEvent(out)
      [] op = "ListEvents" -> ListEvents(out)
      [] op = "DeleteEvent" -> DeleteEvent(out)

\* A mutant of calCall: a call that ended in an error is made once more.
calCallRetry(c, op, arg, body, out) ==
    LET req == [method |-> RequestOf(op, arg).method,
                url |-> c.baseURL \o RequestOf(op, arg).path,
                body |-> body]
        got == IF ValidURL(req.url) THEN out
               ELSE [kind |-> "badurl", status |-> 0, body |-> << >>]
    IN Outcome(calReturn(op, got),
               IF got.kind = "badurl" THEN << >>
               ELSE IF calReturn(op, got).err # NoError
               THEN Do(req, got) \o Do(req, got)
               ELSE Do(req, got),
               bodyAtReturn(got))

\* One operation of the calendar client c, from the request it builds to its
\* return: the request is not sent when its URL cannot be parsed.
calCall(c, op, arg, body, out) ==
    LET req == [method |-> RequestOf(op, arg).method,
                url |-> c.baseURL \o RequestOf(op, arg).path,
                body |-> body]
        got == IF ValidURL(req.url) THEN out
               ELSE [kind |-> "badurl", status |-> 0, body |-> << >>]
    IN Outcome(calReturn(op, got),
               IF got.kind = "badurl" THEN << >> ELSE Do(req, got),
               bodyAtReturn(got))

\* The loop of the "channels" case of runDiscord; args[1] is "channels".
RECURSIVE guildFlags(_, _, _)
guildFlags(args, i, guildID) ==
    IF i > Len(args) THEN guildID
    ELSE IF args[i] = <<"--guild">> /\ i + 1 <= Len(args)
    THEN guildFlags(args, i + 2, args[i + 1])
    ELSE IF HasPrefix(args[i], <<"--guild=">>)
    THEN guildFlags(args, i + 1, TrimPrefix(args[i], <<"--guild=">>))
    ELSE guildFlags(args, i + 1, guildID)

(***************************************************************************)
(* The inputs of the model.                                                *)
(***************************************************************************)
\* Lines of a config file: white space, a comment, headers (one with inner
\* blanks, one of an unknown section), the five keys (one with blanks around
\* key and value and a '=' inside the value), an empty value, an unknown key
\* and a line with no '='.
Lines ==
    { <<" ">>,
      <<" ", "#", "url", "=", "z">>,
      <<"[", "cal", "]">>,
      <<" ", "[", " ", "discord", " ", "]">>,
      <<"[", "other", "]">>,
      <<" ", "url", " ", "=", " ", "a", "=", "b", " ">>,
      <<"url", "=">>,
      <<"webhook", "=", "w">>,
      <<"bot_token", "=", "t">>,
      <<"guild_id", "=", "g">>,
      <<"channel_id", "=", "c">>,
      <<"bogus", "=", "v">>,
      <<"url", " ", "a">> }

\* A Config other than the defaults, for parse started on a used Config.
UsedConfig ==
    [CalURL |-> <<"old">>,
     DiscordWebhook |-> <<"old">>,
     DiscordBotToken |-> EmptyStr,
     DiscordGuildID |-> <<"old">>,
     DiscordChannelID |-> <<"old">>]

StartConfigs == {DefaultConfig, UsedConfig}

\* The lines of the files handed to parse whole: the three headers, three
\* different values of url (one of them empty) and one key of [discord].
BlockLines ==
    { <<"[", "cal", "]">>,
      <<"[", "discord", "]">>,
      <<"[", "other", "]">>,
      <<"url", "=", "u1">>,
      <<"url", " ", "=", " ", "u2">>,
      <<"url", "=">>,
      <<"webhook", "=", "w">> }

\* The files of at most MaxBlockLines of these lines.
RECURSIVE Files(_)
Files(n) ==
    IF n = 0 THEN { << >> }
    ELSE LET shorter == Files(n - 1)
         IN shorter \cup { Append(f, l) : f \in { g \in shorter : Len(g) = n - 1 },
                                          l \in BlockLines }

\* Nothing recorded yet about a c.set call.
NoCall == [called |-> FALSE, section |-> EmptyStr, key |-> EmptyStr,
           value |-> EmptyStr, before |-> DefaultConfig]

ParserIdle ==
    [pc |-> "idle", start |-> DefaultConfig, input |-> << >>, cfg |-> DefaultConfig,
     section |-> EmptyStr, last |-> NoCall, readErr |-> FALSE, err |-> "pending"]

\* No result yet: Load has not returned.
NoResult == [nil |-> TRUE, cfg |-> ZeroConfig, err |-> "nil", envApplied |-> FALSE]

\* No client constructed yet.
NoClient == [kind |-> "none", baseURL |-> EmptyStr, botToken |-> EmptyStr,
             webhookURL |-> EmptyStr]

\* The variables a PYLON_* sample environment sets to a non-empty value.
NonEmptySets ==
    { {}, Fields, {"CalURL", "DiscordBotToken"},
      {"DiscordWebhook", "DiscordGuildID", "DiscordChannelID"} }

\* The environment in which the variables of the fields S hold a value and the
\* others are set to "" (present) or are unset.
EnvOf(S, present) ==
    [n \in {EnvName(f) : f \in (IF present THEN Fields ELSE S)} |->
        IF n \in {EnvName(f) : f \in S} THEN <<"env:", n>> ELSE EmptyStr]

EnvSamples == {EnvOf(S, present) : S \in NonEmptySets, present \in BOOLEAN}

\* The lines of ~/.pylonrc in an invocation: the headers and the keys of Lines
\* that three of the five fields need (the other lines, and the other two keys,
\* are inputs of SpecParse).
RcLines ==
    { <<"[", "cal", "]">>,
      <<" ", "[", " ", "discord", " ", "]">>,
      <<"[", "other", "]">>,
      <<" ", "url", " ", "=", " ", "a", "=", "b", " ">>,
      <<"url", "=">>,
      <<"webhook", "=", "w">>,
      <<"bot_token", "=", "t">> }

\* The files ~/.pylonrc may hold.
RcFiles == UNION {[1..n -> RcLines] : n \in 0..MaxRcLines}

\* What one invocation finds: the home directory, the file, the environment.
Worlds ==
    { [home |-> "err", rc |-> "missing", file |-> << >>, readErr |-> FALSE, env |-> e] :
          e \in EnvSamples }
    \cup { [home |-> "ok", rc |-> r, file |-> << >>, readErr |-> FALSE, env |-> e] :
          r \in {"missing", "denied"}, e \in EnvSamples }
    \cup { [home |-> "ok", rc |-> "ok", file |-> fl, readErr |-> b, env |-> e] :
          fl \in RcFiles, b \in BOOLEAN, e \in EnvSamples }

LoaderIdle ==
    [pc |-> "idle",
     world |-> [home |-> "ok", rc |-> "missing", file |-> << >>, readErr |-> FALSE,
                env |-> << >>],
     res |-> NoResult, client |-> NoClient, requests |-> 0, exit |-> -1,
     stderr |-> "" ]

\* The statuses a response may carry: the three the client expects, another
\* 2xx, a redirect left unfollowed, and three errors.
Statuses == {200, 201, 202, 204, 301, 400, 404, 500}

\* The bodies a response may carry.
Bodies ==
    { << >>,
      <<"boom">>,
      <<"null">>,
      <<"{", "\"error\"", ":", "\"x\"", "}">>,
      <<"{", "\"error\"", ":", "\"\"", "}">>,
      <<"{", "\"Error\"", ":", "\"x\"", "}">>,
      <<"{", "\"error\"", ":", "5", "}">>,
      <<"{", "\"message\"", ":", "\"x\"", "}">>,
      <<"{", "\"message\"", ":", "5", ",", "\"error\"", ":", "\"x\"", "}">>,
      <<"{", "\"error\"", ":", "\"x\"", "}", "boom">>,
      <<"{", "\"id\"", ":", "\"f1\"", ",", "\"name\"", ":", "\"x\"", "}">>,
      <<"[", "]">>,
      <<"[", "{", "\"ID\"", ":", "\"f1\"", ",", "\"CreatedAt\"", ":",
        "\"2026-02-18T10:30:00Z\"", "}", "]">>,
      <<"[", "{", "\"CreatedAt\"", ":", "\"x\"", "}", "]">> }

\* What the HTTP client gives an operation: a response, or an error (no
\* connection, a timeout); c.delete may also fail to build its request.
NoOutcome == [kind |-> "none", status |-> 0, body |-> << >>]

Outcomes(op) ==
    { [kind |-> "response", status |-> st, body |-> b] : st \in Statuses, b \in Bodies }
    \cup { [NoOutcome EXCEPT !.kind = "transport"] }
    \cup (IF op \in {"DeleteFeed", "DeleteEvent"}
          THEN { [NoOutcome EXCEPT !.kind = "badurl"] } ELSE {})

\* The base URLs cal.NewClient may be given: the default, one of the tests,
\* one that ends with "/", and none.
BaseURLs ==
    { <<"http://localhost:8085">>, <<"https://cal.example.com">>,
      <<"https://cal.example.com", "/">>, EmptyStr }

\* Feed tokens: one of the tests, one with a "/" inside, and none.
FeedTokens == { <<"tok">>, <<"a", "/", "b">>, EmptyStr }

CalOps == {"CreateFeed", "ListFeeds", "DeleteFeed", "CreateEvent", "ListEvents", "DeleteEvent"}

CalIdle ==
    [pc |-> "idle", client |-> [baseURL |-> EmptyStr], op |-> "none",
     arg |-> EmptyStr, req |-> [method |-> "", path |-> << >>],
     sent |-> 0, out |-> NoOutcome, resp |-> "none", ret |-> Failed(NoError)]

\* The clients discord.NewClient may build: each setting present or absent.
DiscordClients ==
    { [botToken |-> t, webhookURL |-> w] :
          t \in {EmptyStr, <<"t">>}, w \in {EmptyStr, <<"https://hook">>} }

\* Texts to send: empty, plain, with characters the JSON encoder escapes, and
\* with a byte that is not valid UTF-8.
Messages ==
    { EmptyStr, <<"hi">>, <<"say", " ", "\"", "hi", "\"">>, <<"a", "<", "b">>,
      <<"\\">>, <<"<0xFF>", "hi">> }

\* Channel and guild ids: none, a plain one, and one no URL can hold.
ChannelIDs == {EmptyStr, <<"c1">>, <<"<0x7F>">>}
GuildIDs == {EmptyStr, <<"g1">>, <<"<0x7F>">>}

\* Limits asked of ReadMessages: around both ends of the valid range.
Limits == {-5, 0, 1, 50, 100, 101}

\* A JSON array of the given objects.
RECURSIVE JoinObjects(_)
JoinObjects(objs) ==
    IF objs = << >> THEN << >>
    ELSE IF Len(objs) = 1 THEN objs[1]
    ELSE objs[1] \o <<",">> \o JoinObjects(Tail(objs))

ArrayBody(objs) == <<"[">> \o JoinObjects(objs) \o <<"]">>

\* Three messages, the first the oldest.
MessageObject(k) ==
    CASE k = 1 -> <<"{", "\"id\"", ":", "\"1\"", ",", "\"timestamp\"", ":",
                    "\"2026-02-18T10:30:00Z\"", ",", "\"content\"", ":", "\"hi\"", "}">>
      [] k = 2 -> <<"{", "\"id\"", ":", "\"2\"", ",", "\"timestamp\"", ":",
                    "\"2026-02-18T10:31:00Z\"", "}">>
      [] k = 3 -> <<"{", "\"id\"", ":", "\"3\"", ",", "\"timestamp\"", ":",
                    "\"2026-02-18T10:32:00Z\"", "}">>

\* Four channels: text, voice (type 2), text, and one with no type member.
ChannelObject(k) ==
    CASE k = 1 -> <<"{", "\"id\"", ":", "\"1\"", ",", "\"type\"", ":", "0", "}">>
      [] k = 2 -> <<"{", "\"id\"", ":", "\"2\"", ",", "\"type\"", ":", "2", "}">>
      [] k = 3 -> <<"{", "\"id\"", ":", "\"3\"", ",", "\"type\"", ":", "0", ",",
                    "\"name\"", ":", "\"x\"", "}">>
      [] k = 4 -> <<"{", "\"id\"", ":", "\"f1\"", "}">>

\* Bodies that are not a JSON array of objects of the right types.
BadBodies ==
    { << >>, <<"boom">>, <<"{", "\"id\"", ":", "\"1\"", "}">>,
      <<"[", "{", "\"id\"", ":", "5", "}", "]">>,
      <<"[", "{", "\"type\"", ":", "\"x\"", "}", "]">>,
      <<"[", "{", "\"id\"", ":", "\"1\"", "}", "]", "boom">> }

\* The bodies a response to ReadMessages may carry.
MessageBodies ==
    { ArrayBody([i \in DOMAIN f |-> MessageObject(f[i])]) :
          f \in UNION {[1..n -> 1..3] : n \in 0..MaxMsgs} }
        \cup BadBodies \cup {<<"null">>}

\* The bodies a response to ListChannels may carry.
ChannelBodies ==
    { ArrayBody([i \in DOMAIN f |-> ChannelObject(f[i])]) :
          f \in UNION {[1..n -> 1..4] : n \in 0..MaxChannels} }
        \cup BadBodies \cup {<<"null">>}

\* What the HTTP client gives a Discord operation: a 200 with one of the
\* bodies, any status with no body or with a text that is not JSON, or an
\* error.
Responses(bodies) ==
    { [kind |-> "response", status |-> StatusOK, body |-> b] : b \in bodies }
    \cup { [kind |-> "response", status |-> st, body |-> b] :
               st \in Statuses, b \in {<< >>, <<"boom">>} }
    \cup { [NoOutcome EXCEPT !.kind = "transport"] }

SendOutcomes == Responses({<< >>, <<"boom">>})
ReadOutcomes == Responses(MessageBodies)
ChannelsOutcomes == Responses(ChannelBodies)

\* The numerals a --count argument may hold, and other texts it may hold.
CountTexts ==
    { <<"-5">>, <<"0">>, <<"100">>, <<"101">>, <<"abc">>, <<"99999999999999999999">> }

\* The arguments `pylon discord read` may be given after "read".
ReadArgWords ==
    { <<"--count">>, <<"--count=">>, <<"--channel">>, <<"--channel=", "c2">>, <<"c2">> }
    \cup CountTexts \cup { <<"--count=">> \o t : t \in CountTexts }

ReadArgs ==
    { <<<<"read">>>> \o a : a \in UNION {[1..n -> ReadArgWords] : n \in 0..MaxArgs} }

\* What the HTTP client gives `pylon discord read`.
ReadRunOutcomes ==
    { [NoOutcome EXCEPT !.kind = "transport"],
      [kind |-> "response", status |-> 200,
       body |-> ArrayBody(<<MessageObject(2), MessageObject(1)>>)],
      [kind |-> "response", status |-> 500, body |-> <<"boom">>] }

\* No Discord call yet.
DiscordIdle ==
    [pc |-> "idle", client |-> [botToken |-> EmptyStr, webhookURL |-> EmptyStr],
     cfgChannel |-> EmptyStr, op |-> "none", argv |-> << >>, arg |-> EmptyStr,
     limit |-> 0, out |-> NoOutcome, reqs |-> << >>, resp |-> "none",
     ret |-> Failed(NoError), exit |-> -1]

\* The timestamp "2026-02-18T10:30:00.000Z", a byte a token.
Stamp24 ==
    <<"2", "0", "2", "6", "-", "0", "2", "-", "1", "8", "T", "1", "0", ":", "3", "0",
      ":", "0", "0", ".", "0", "0", "0", "Z">>

\* The timestamps of the messages: the beginnings of Stamp24 of 0, 10, 18, 19,
\* 20 and 24 bytes.
Timestamps == {SubSeq(Stamp24, 1, n) : n \in {0, 10, 18, 19, 20, 24}}

Authors ==
    { [Username |-> u, GlobalName |-> g] :
          u \in {EmptyStr, <<"bob">>}, g \in {EmptyStr, <<"Bobby">>} }

Contents ==
    { EmptyStr, <<"hi">>, <<"a", "\n", "b">>, <<"say", " ", "\"", "x", "\"">>,
      <<"c", ":", "\\", "d">> }

\* m.Reference == nil
NoReference ==
    [nil |-> TRUE, Content |-> EmptyStr,
     Author |-> [Username |-> EmptyStr, GlobalName |-> EmptyStr]]

\* The parents of the replies.
References ==
    { [nil |-> FALSE, Content |-> c, Author |-> a] :
          c \in {EmptyStr, <<"hi">>, <<"say", " ", "\"", "x", "\"">>},
          a \in { [Username |-> <<"ann">>, GlobalName |-> EmptyStr],
                  [Username |-> <<"ann">>, GlobalName |-> <<"Annie">>] } }

\* The messages FormatMessages is given.
FormatInputs ==
    { [ID |-> <<"1">>, Content |-> <<"hi">>, Timestamp |-> ts,
       Author |-> [Username |-> <<"bob">>, GlobalName |-> EmptyStr],
       Reference |-> NoReference] : ts \in Timestamps }
    \cup { [ID |-> <<"1">>, Content |-> c, Timestamp |-> Stamp24,
            Author |-> [Username |-> <<"bob">>, GlobalName |-> EmptyStr],
            Reference |-> NoReference] : c \in Contents }
    \cup { [ID |-> <<"1">>, Content |-> <<"hi">>, Timestamp |-> Stamp24, Author |-> a,
            Reference |-> NoReference] : a \in Authors }
    \cup { [ID |-> <<"1">>, Content |-> c, Timestamp |-> SubSeq(Stamp24, 1, 20),
            Author |-> [Username |-> <<"bob">>, GlobalName |-> <<"Bobby">>],
            Reference |-> r] : c \in {EmptyStr, <<"hi">>}, r \in References }

FormatIdle ==
    [pc |-> "idle", op |-> "none", msgs |-> << >>, mark |-> 0, sb |-> EmptyStr,
     out |-> EmptyStr,
     author |-> [Username |-> EmptyStr, GlobalName |-> EmptyStr], name |-> EmptyStr]

\* What one run of main finds: no file and an empty environment; a file that
\* cannot be opened; the Discord settings in the file and in the environment;
\* the calendar URL in the file.
MainWorlds ==
    { [home |-> "ok", rc |-> "missing", file |-> << >>, readErr |-> FALSE,
       env |-> EnvOf({}, FALSE)],
      [home |-> "ok", rc |-> "denied", file |-> << >>, readErr |-> FALSE,
       env |-> EnvOf({}, FALSE)],
      [home |-> "ok", rc |-> "ok",
       file |-> << <<" ", "[", " ", "discord", " ", "]">>, <<"bot_token", "=", "t">> >>,
       readErr |-> FALSE,
       env |-> EnvOf({"DiscordWebhook", "DiscordGuildID", "DiscordChannelID"}, FALSE)],
      [home |-> "ok", rc |-> "ok",
       file |-> << <<"[", "cal", "]">>,
                   <<" ", "url", " ", "=", " ", "a", "=", "b", " ">> >>,
       readErr |-> FALSE, env |-> EnvOf({}, FALSE)] }

\* The base URL given on the command line.
FlagURL == <<"https://cal.example.com">>

\* What may come before the resource in `pylon cal ...`.
CalPrefixes ==
    { << >>, << <<"--", "url">>, FlagURL >>, << <<"--", "url", "=">> \o FlagURL >>,
      << <<"--", "url">>, <<"<0x7F>">> >> }

\* The commands of `pylon cal`, `event add` aside.
CalCommands ==
    { << >>,
      << <<"feed">> >>,
      << <<"feed">>, <<"create">> >>,
      << <<"feed">>, <<"create">>, <<"Work">> >>,
      << <<"feed">>, <<"create">>, <<"My">>, <<"Work">>, <<"my-work">> >>,
      << <<"feed">>, <<"list">> >>,
      << <<"feed">>, <<"ls">> >>,
      << <<"feed">>, <<"delete">> >>,
      << <<"feed">>, <<"rm">>, <<"f1">> >>,
      << <<"feed">>, <<"bogus">> >>,
      << <<"event">> >>,
      << <<"event">>, <<"list">> >>,
      << <<"event">>, <<"list">>, <<"--", "feed">> >>,
      << <<"event">>, <<"list">>, <<"--", "feed">>, <<"f1">> >>,
      << <<"event">>, <<"ls">>, <<"--", "feed", "=", "f1">> >>,
      << <<"event">>, <<"delete">> >>,
      << <<"event">>, <<"rm">>, <<"e1">> >>,
      << <<"event">>, <<"bogus">> >>,
      << <<"event">>, <<"add">>, <<"--", "feed">> >>,
      << <<"event">>, <<"add">>, <<"--", "feed">>, <<"f1">>, <<"Standup">>,
         <<"--", "start">>, <<"2026-02-18T10:30:00Z">>, <<"--", "categories">> >>,
      << <<"event">>, <<"create">>, <<"--", "feed">>, <<"f1">>, <<"Standup">>,
         <<"--", "start">>, <<"2026-02-18T10:30:00Z">> >>,
      << <<"subscribe">> >>,
      << <<"subscribe">>, <<"tok">> >>,
      << <<"bogus">> >> }

\* The URL of an event.
EventURL == <<"https://example.com/e">>

\* The pieces the flags of `event add` are made of: a flag with its value, a
\* flag that takes a value with none after it, a positional word, a flag
\* that takes no value, and an unknown flag.
EventGroups ==
    { << <<"--", "feed">>, <<"f1">> >>,
      << <<"--", "summary">>, <<"Standup">> >>,
      << <<"--", "start">>, <<"2026-02-18T10:30:00Z">> >>,
      << <<"--", "url">>, EventURL >>,
      << <<"--", "url">> >>,
      << <<"Lunch">> >>,
      << <<"--", "all-day">> >>,
      << <<"--", "bogus">> >> }

RECURSIVE Flatten(_)
Flatten(groups) == IF groups = << >> THEN << >> ELSE groups[1] \o Flatten(Tail(groups))

\* The arguments of `pylon cal event add`: up to MaxFlags pieces.
EventAddArgs ==
    { << <<"cal">>, <<"event">>, <<"add">> >> \o Flatten(g) :
          g \in UNION {[1..n -> EventGroups] : n \in 0..MaxFlags} }

\* The commands of `pylon discord`.
DiscordCommands ==
    { << <<"msg">> >>,
      << <<"msg">>, <<"hi">> >>,
      << <<"send">>, <<"hi">>, <<"all">> >>,
      << <<"read">> >>,
      << <<"read">>, <<"--channel">>, <<"c2">> >>,
      << <<"read">>, <<"--count">>, <<"100">> >>,
      << <<"read">>, <<"--count=", "101">>, <<"--channel=", "c2">> >>,
      << <<"channels">> >>,
      << <<"channels">>, <<"--guild">> >>,
      << <<"channels">>, <<"--guild">>, <<"g2">> >>,
      << <<"channels">>, <<"--guild=", "g2">> >>,
      << <<"bogus">> >> }

\* os.Args[1:] with any of the worlds.
MainArgs ==
    { << >>, << <<"version">> >>, << <<"help">> >>, << <<"--", "help">> >>,
      << <<"-h">> >>, << <<"bogus">> >>, << <<"cal">> >>, << <<"discord">> >>,
      << <<"version">>, <<"cal">> >> }
    \cup { << <<"cal">> >> \o pre \o cmd : pre \in CalPrefixes, cmd \in CalCommands }
    \cup { << <<"discord">> >> \o cmd : cmd \in DiscordCommands }

\* What the HTTP client gives the one operation of a run.
MainOutcomes ==
    { [NoOutcome EXCEPT !.kind = "transport"],
      [kind |-> "response", status |-> 200,
       body |-> ArrayBody(<<MessageObject(2), MessageObject(1)>>)],
      [kind |-> "response", status |-> 201,
       body |-> <<"{", "\"id\"", ":", "\"f1\"", ",", "\"name\"", ":", "\"x\"", "}">>],
      [kind |-> "response", status |-> 204, body |-> << >>],
      [kind |-> "response", status |-> 500,
       body |-> <<"{", "\"error\"", ":", "\"x\"", "}">>] }

\* Before main: nothing loaded, no client, no operation.
CliIdle ==
    [pc |-> "idle", argv |-> << >>,
     world |-> [home |-> "ok", rc |-> "missing", file |-> << >>, readErr |-> FALSE,
                env |-> << >>],
     args |-> << >>, loads |-> 0, cfg |-> ZeroConfig, client |-> NoClient,
     ops |-> 0, op |-> "none", event |-> Parsed("none", ZeroEventRequest),
     reqs |-> << >>, resp |-> "none", ret |-> Failed(NoError), exit |-> -1,
     stderr |-> "" ]

(***************************************************************************)
(* Config.parse as a state machine: the scanner loop, one line a step.     *)
(***************************************************************************)
\* parse is entered: scanner := bufio.NewScanner(r); section := "".
ParseInit ==
    /\ parser \in { [ParserIdle EXCEPT !.pc = "scan", !.start = c, !.cfg = c] :
                        c \in StartConfigs }
    /\ loader = LoaderIdle
    /\ calcall = CalIdle
    /\ discall = DiscordIdle
    /\ fmtcall = FormatIdle
    /\ cli = CliIdle

\* scanner.Scan() delivers a line and the loop body runs on it.
ScanLine(text) ==
    /\ parser.pc = "scan"
    /\ Len(parser.input) < MaxLines
    /\ LET ps == scanIter([cfg |-> parser.cfg, section |-> parser.section], text)
           a  == setArgs(parser.section, text)
       IN parser' = [parser EXCEPT
              !.input = Append(@, text),
              !.cfg = ps.cfg,
              !.section = ps.section,
              !.last = IF reachesSet(text)
                       THEN [called |-> TRUE, section |-> a.section, key |-> a.key,
                             value |-> a.value, before |-> parser.cfg]
                       ELSE [NoCall EXCEPT !.before = parser.cfg]]
    /\ UNCHANGED <<loader, calcall, discall, fmtcall, cli>>

\* scanner.Scan() returns false (end of input, or the reader failed) and parse
\* returns scanner.Err().
ScanEnd(failed) ==
    /\ parser.pc = "scan"
    /\ parser' = [parser EXCEPT !.pc = "done", !.readErr = failed,
                                !.err = parseErr(parser.input, failed)]
    /\ UNCHANGED <<loader, calcall, discall, fmtcall, cli>>

ParseNext ==
    \/ \E text \in Lines : ScanLine(text)
    \/ \E failed \in BOOLEAN : ScanEnd(failed)

SpecParse == ParseInit /\ [][ParseNext]_vars

(***************************************************************************)
(* Config.parse on a whole file, one call a step.                          *)
(***************************************************************************)
\* A reader over a whole file is ready for parse.
ParseFileInit ==
    /\ parser \in { [ParserIdle EXCEPT !.pc = "file", !.start = c, !.cfg = c,
                                       !.input = f] :
                        c \in StartConfigs, f \in Files(MaxBlockLines) }
    /\ loader = LoaderIdle
    /\ calcall = CalIdle
    /\ discall = DiscordIdle
    /\ fmtcall = FormatIdle
    /\ cli = CliIdle

\* c.parse(r) runs over the file and returns scanner.Err().
ParseFile(failed) ==
    /\ parser.pc = "file"
    /\ \E r \in { parse(parser.start, parser.input, failed) } :
          parser' = [parser EXCEPT !.pc = "parsed", !.cfg = r.cfg,
                                   !.readErr = failed, !.err = r.err]
    /\ UNCHANGED <<loader, calcall, discall, fmtcall, cli>>

ParseFileNext == \E failed \in BOOLEAN : ParseFile(failed)

SpecParseFile == ParseFileInit /\ [][ParseFileNext]_vars

(***************************************************************************)
(* The file format as the specification words it, for the claims about     *)
(* parse.  Nothing below is used by the model of the code.                 *)
(***************************************************************************)
\* The text without its blanks.
NonBlank(text) == SelectSeq(text, LAMBDA ch : ch # " ")

IsBlankLine(text) == NonBlank(text) = << >>

\* The first non-blank character is '#'.
IsCommentLine(text) == NonBlank(text) # << >> /\ NonBlank(text)[1] = "#"

IsHeaderLine(text) ==
    LET nb == NonBlank(text) IN
    /\ ~IsBlankLine(text) /\ ~IsCommentLine(text)
    /\ Len(nb) >= 2 /\ nb[1] = "[" /\ nb[Len(nb)] = "]"

\* The section a header line names (the names of Lines hold no blanks).
HeaderName(text) == LET nb == NonBlank(text) IN SubSeq(nb, 2, Len(nb) - 1)

HasEquals(text) == \E i \in 1..Len(text) : text[i] = "="

\* A key = value line: not blank, not a comment, not a header, and with a '='.
IsKeyLine(text) ==
    ~IsBlankLine(text) /\ ~IsCommentLine(text) /\ ~IsHeaderLine(text) /\ HasEquals(text)

\* A line without '=' that is neither blank, nor a comment, nor a header.
IsMalformedLine(text) ==
    ~IsBlankLine(text) /\ ~IsCommentLine(text) /\ ~IsHeaderLine(text) /\ ~HasEquals(text)

\* The position of the first '=' of a key line.
FirstEquals(text) == CHOOSE i \in 1..Len(text) : text[i] = "=" /\ \A j \in 1..(i - 1) : text[j] # "="

\* t is s without its leading and trailing blanks.
IsTrimOf(t, s) ==
    \E i \in 1..(Len(s) + 1) : \E j \in 0..Len(s) :
        /\ t = SubSeq(s, i, j)
        /\ \A k \in 1..Len(s) : (k < i \/ k > j) => s[k] = " "
        /\ i <= j => (s[i] # " " /\ s[j] # " ")

\* The recognized (section, key) pairs and the field each one sets.
Recognized ==
    { <<(<<"cal">>), (<<"url">>)>>,
      <<(<<"discord">>), (<<"webhook">>)>>,
      <<(<<"discord">>), (<<"bot_token">>)>>,
      <<(<<"discord">>), (<<"guild_id">>)>>,
      <<(<<"discord">>), (<<"channel_id">>)>> }

FieldOf(section, key) ==
    CASE key = <<"url">> -> "CalURL"
      [] key = <<"webhook">> -> "DiscordWebhook"
      [] key = <<"bot_token">> -> "DiscordBotToken"
      [] key = <<"guild_id">> -> "DiscordGuildID"
      [] key = <<"channel_id">> -> "DiscordChannelID"

KnownSections == { <<"cal">>, <<"discord">> }

\* The key of a key line, by the file format: the text before the first '='
\* without its blanks (the keys of Lines hold no blanks).
KeyText(text) == NonBlank(SubSeq(text, 1, FirstEquals(text) - 1))

\* Whether a line is noise, given the section the preceding header named
\* (<< >> before the first header): a blank line, a comment, the header of an
\* unknown section, a line without '=', a key line that is not under a known
\* section, or a key the section does not know.
IsNoise(sec, text) ==
    \/ IsBlankLine(text)
    \/ IsCommentLine(text)
    \/ IsHeaderLine(text) /\ HeaderName(text) \notin KnownSections
    \/ IsMalformedLine(text)
    \/ IsKeyLine(text) /\ <<sec, KeyText(text)>> \notin Recognized

\* The file with its noise removed.
RECURSIVE StripNoise(_, _)
StripNoise(sec, lines) ==
    IF lines = << >> THEN << >>
    ELSE LET text == Head(lines)
             next == IF IsHeaderLine(text) THEN HeaderName(text) ELSE sec
         IN (IF IsNoise(sec, text) THEN << >> ELSE <<text>>) \o StripNoise(next, Tail(lines))

Stripped == StripNoise(EmptyStr, parser.input)

\* The fields whose value differs between two Configs.
Changed(c, d) == {f \in Fields : c[f] # d[f]}

(***************************************************************************)
(* Claims about Config.parse (specification SpecParse).                    *)
(***************************************************************************)
\* C4: when parse has read a whole file that holds noise (comment lines, blank
\* lines, unknown sections with their key lines, unknown keys, lines without
\* '='), it returns no error and leaves the five fields at the values that
\* parse, from the same starting Config, gives for the file without the noise.
C4_NoiseIgnored ==
    (parser.pc = "done" /\ ~parser.readErr) =>
        /\ parser.err = "nil"
        /\ parse(parser.start, Stripped, FALSE) = [cfg |-> parser.cfg, err |-> "nil"]

\* A whole file with noise before and after a line that sets a field was parsed.
C4_Witness ==
    /\ parser.pc = "done" /\ ~parser.readErr
    /\ Len(parser.input) = 3
    /\ IsNoise(<<"cal">>, parser.input[2])
    /\ Len(Stripped) = 2
    /\ parser.cfg # parser.start

\* C5: parse is idempotent: parse applied again, with the same content, to the
\* Config that one run of parse left behind gives the same Config and the same
\* error.
C5_ParseIdempotent ==
    parser.pc = "done" =>
        parse(parser.cfg, parser.input, parser.readErr)
            = [cfg |-> parser.cfg, err |-> parser.err]

\* A run of parse that changed the Config it started from has returned.
C5_Witness ==
    /\ parser.pc = "done"
    /\ Cardinality(Changed(parser.cfg, parser.start)) >= 2

\* C6: in a key line only the first '=' separates key from value: the key given
\* to set is the text before the first '=' without its surrounding blanks, the
\* value is the text after it without its surrounding blanks, further '='
\* characters included.
C6_FirstEqualsSplits ==
    parser.last.called =>
        LET text == parser.input[Len(parser.input)]
            i == FirstEquals(text)
        IN /\ IsTrimOf(parser.last.key, SubSeq(text, 1, i - 1))
           /\ IsTrimOf(parser.last.value, SubSeq(text, i + 1, Len(text)))

\* A key line with blanks around key and value and a '=' inside the value has
\* reached set.
C6_Witness ==
    /\ parser.last.called
    /\ HasEquals(parser.last.value)
    /\ LET text == parser.input[Len(parser.input)]
       IN text[1] = " " /\ text[Len(text)] = " "

\* C7: one key = value line changes at most one field, and changes one only
\* when (current section, key) is one of the five recognized pairs, and then
\* the field of that pair; otherwise nothing changes.  The line raises no error.
C7_SetFrame ==
    parser.last.called =>
        LET ch == Changed(parser.cfg, parser.last.before)
            pair == <<parser.last.section, parser.last.key>>
        IN /\ Cardinality(ch) <= 1
           /\ ch # {} => (pair \in Recognized /\ ch = {FieldOf(pair[1], pair[2])})
           /\ pair \in Recognized =>
                 parser.cfg[FieldOf(pair[1], pair[2])] = parser.last.value
           /\ (parser.pc = "done" /\ ~parser.readErr) => parser.err = "nil"

\* The known key url was read under [discord], and the Config did not change.
C7_Witness ==
    /\ parser.last.called
    /\ parser.last.section = <<"discord">>
    /\ parser.last.key = <<"url">>
    /\ parser.cfg = parser.last.before

(***************************************************************************)
(* One invocation of `pylon cal ...` or `pylon discord ...` up to its      *)
(* client call.  runCal and runDiscord both start with config.Load(), which *)
(* does not depend on its caller: the command is chosen at the step where  *)
(* the two callers first differ.                                           *)
(***************************************************************************)
LoadInit ==
    /\ loader \in { [LoaderIdle EXCEPT !.pc = "start", !.world = w] : w \in Worlds }
    /\ parser = ParserIdle
    /\ calcall = CalIdle
    /\ discall = DiscordIdle
    /\ fmtcall = FormatIdle
    /\ cli = CliIdle

\* cfg, err := config.Load()
DoLoad ==
    /\ loader.pc = "start"
    /\ loader' = [loader EXCEPT !.pc = "loaded", !.res = Load(loader.world)]
    /\ UNCHANGED <<parser, calcall, discall, fmtcall, cli>>

\* if err != nil { fatal("config: %v", err) }: a line on stderr and os.Exit(1).
ConfigFatal ==
    /\ loader.pc = "loaded"
    /\ loader.res.err # "nil"
    /\ loader' = [loader EXCEPT !.pc = "exited", !.exit = 1, !.stderr = "pylon: config"]
    /\ UNCHANGED <<parser, calcall, discall, fmtcall, cli>>

\* runCal: url := cfg.CalURL, replaced by the value of a --url argument, and
\* client := cal.NewClient(url).
NewCalClient(urlGiven) ==
    /\ loader.pc = "loaded"
    /\ loader.res.err = "nil"
    /\ loader' = [loader EXCEPT
           !.pc = "client",
           !.client = [kind |-> "cal",
                       baseURL |-> IF urlGiven THEN <<"http://flag">>
                                   ELSE loader.res.cfg.CalURL,
                       botToken |-> EmptyStr, webhookURL |-> EmptyStr]]
    /\ UNCHANGED <<parser, calcall, discall, fmtcall, cli>>

\* runDiscord: client := discord.NewClient(cfg.DiscordBotToken, cfg.DiscordWebhook)
NewDiscordClient ==
    /\ loader.pc = "loaded"
    /\ loader.res.err = "nil"
    /\ loader' = [loader EXCEPT
           !.pc = "client",
           !.client = [kind |-> "discord", baseURL |-> EmptyStr,
                       botToken |-> loader.res.cfg.DiscordBotToken,
                       webhookURL |-> loader.res.cfg.DiscordWebhook]]
    /\ UNCHANGED <<parser, calcall, discall, fmtcall, cli>>

\* The command's client operation issues its HTTP request; the process then
\* prints the result, or calls fatal when the operation returned an error.
ClientCall(ok) ==
    /\ loader.pc = "client"
    /\ loader' = [loader EXCEPT !.pc = "exited", !.requests = @ + 1,
                                !.exit = IF ok THEN 0 ELSE 1,
                                !.stderr = IF ok THEN "" ELSE "pylon: command"]
    /\ UNCHANGED <<parser, calcall, discall, fmtcall, cli>>

\* The command is unknown or lacks an argument: usage or fatal, and os.Exit(1).
UsageExit ==
    /\ loader.pc = "client"
    /\ loader' = [loader EXCEPT !.pc = "exited", !.exit = 1, !.stderr = "pylon: usage"]
    /\ UNCHANGED <<parser, calcall, discall, fmtcall, cli>>

LoadNext ==
    \/ DoLoad
    \/ ConfigFatal
    \/ \E urlGiven \in BOOLEAN : NewCalClient(urlGiven)
    \/ NewDiscordClient
    \/ \E ok \in BOOLEAN : ClientCall(ok)
    \/ UsageExit

SpecLoad == LoadInit /\ [][LoadNext]_vars

(***************************************************************************)
(* What the file assigns, as the specification words it.                   *)
(***************************************************************************)
\* The section in force at line i: the name of the last header before it.
SectionAt(file, i) ==
    LET hs == {j \in 1..(i - 1) : IsHeaderLine(file[j])} IN
    IF hs = {} THEN EmptyStr
    ELSE HeaderName(file[CHOOSE j \in hs : \A k \in hs : k <= j])

\* Line i is a key line that assigns field f.
AssignsAt(file, i, f) ==
    /\ IsKeyLine(file[i])
    /\ <<SectionAt(file, i), KeyText(file[i])>> \in Recognized
    /\ FieldOf(SectionAt(file, i), KeyText(file[i])) = f

\* The file of the world exists, is readable, and sets field f.
FileSets(w, f) ==
    /\ w.home = "ok" /\ w.rc = "ok"
    /\ \E i \in 1..Len(w.file) : AssignsAt(w.file, i, f)

\* The value the file gives f: that of its last assignment (the values of Lines
\* hold no inner blanks).
FileValue(w, f) ==
    LET as == {i \in 1..Len(w.file) : AssignsAt(w.file, i, f)}
        i == CHOOSE j \in as : \A k \in as : k <= j
        text == w.file[i]
    IN NonBlank(SubSeq(text, FirstEquals(text) + 1, Len(text)))

\* The variable of field f is set to a non-empty string.
EnvNonEmpty(w, f) == EnvName(f) \in DOMAIN w.env /\ w.env[EnvName(f)] # EmptyStr

\* The resolved value the precedence rule asks for.
Resolved(w, f) ==
    IF EnvNonEmpty(w, f) THEN w.env[EnvName(f)]
    ELSE IF FileSets(w, f) THEN FileValue(w, f)
    ELSE DefaultConfig[f]

(***************************************************************************)
(* Claims about config.Load (specification SpecLoad).                      *)
(***************************************************************************)
\* C1: each field of the Config that Load returns holds the value of its
\* environment variable if that is set and non-empty, otherwise the value the
\* file assigns to the key if it sets it (an empty value included), otherwise
\* the built-in default; an unset or empty variable changes nothing.
C1_Precedence ==
    (loader.pc # "start" /\ ~loader.res.nil) =>
        \A f \in Fields : loader.res.cfg[f] = Resolved(loader.world, f)

\* Load has returned a Config in which one field comes from the environment
\* although the file sets it, and another is the file's because its variable is
\* set but empty.
C1_Witness ==
    /\ loader.pc = "loaded" /\ ~loader.res.nil
    /\ \E f \in Fields :
          EnvNonEmpty(loader.world, f) /\ FileSets(loader.world, f)
    /\ \E f \in Fields :
          /\ EnvName(f) \in DOMAIN loader.world.env /\ ~EnvNonEmpty(loader.world, f)
          /\ FileSets(loader.world, f)
          /\ loader.res.cfg[f] # DefaultConfig[f]

\* C2: when ~/.pylonrc does not exist, or the home directory cannot be
\* determined, Load returns no error and the defaults overlaid with the
\* non-empty environment variables.
C2_MissingFileIsFine ==
    (loader.pc # "start"
        /\ (loader.world.home = "err" \/ loader.world.rc = "missing")) =>
        /\ loader.res.err = "nil"
        /\ ~loader.res.nil
        /\ \A f \in Fields :
              loader.res.cfg[f] = IF EnvNonEmpty(loader.world, f)
                                  THEN loader.world.env[EnvName(f)]
                                  ELSE DefaultConfig[f]

\* Load has returned with no home directory and a variable set in the environment.
C2_Witness ==
    /\ loader.pc = "loaded"
    /\ loader.world.home = "err"
    /\ EnvNonEmpty(loader.world, "DiscordBotToken")
    /\ loader.res.cfg.CalURL # DefaultConfig.CalURL

\* The file exists and opening or reading it fails.
FileFails(w) == w.home = "ok" /\ (w.rc = "denied" \/ (w.rc = "ok" /\ w.readErr))

\* C3: when the file exists but opening or reading it fails, Load returns an
\* error and no Config, applyEnv is not reached, and the command line stops
\* with a diagnostic and exit status 1, with no client built and no request sent.
C3_FileErrorSurfaced ==
    (loader.pc # "start" /\ FileFails(loader.world)) =>
        /\ loader.res.err # "nil"
        /\ loader.res.nil
        /\ ~loader.res.envApplied
        /\ loader.pc \in {"loaded", "exited"}
        /\ loader.client = NoClient
        /\ loader.requests = 0
        /\ loader.pc = "exited" => (loader.exit = 1 /\ loader.stderr = "pylon: config")

\* The read of a file failed after two lines, and the process has exited.
C3_Witness ==
    /\ loader.pc = "exited"
    /\ loader.world.rc = "ok" /\ loader.world.readErr
    /\ Len(loader.world.file) = 2
    /\ loader.exit = 1

(***************************************************************************)
(* The calendar client: one call of one operation on a client that         *)
(* cal.NewClient built.  An operation is one step: it sends its request,   *)
(* gets the outcome and returns.                                           *)
(***************************************************************************)
CalInit ==
    /\ calcall \in { [CalIdle EXCEPT !.pc = "ready", !.client = [baseURL |-> b]] :
                        b \in BaseURLs }
    /\ parser = ParserIdle
    /\ loader = LoaderIdle
    /\ discall = DiscordIdle
    /\ fmtcall = FormatIdle
    /\ cli = CliIdle

\* The step of an operation: op with argument arg meets outcome out and
\* returns ret.  The HTTP client is not called when the request could not be
\* built; when a response came, its body was closed on the way out.
CalStep(op, arg, out, ret) ==
    /\ calcall.pc = "ready"
    /\ calcall' = [calcall EXCEPT
           !.pc = "returned", !.op = op, !.arg = arg, !.req = RequestOf(op, arg),
           !.sent = IF out.kind = "badurl" THEN 0
                    ELSE Len(Do(RequestOf(op, arg), out)),
           !.out = out, !.resp = bodyAtReturn(out), !.ret = ret]
    /\ UNCHANGED <<parser, loader, discall, fmtcall, cli>>

CallCreateFeed ==
    \E out \in Outcomes("CreateFeed") :
        CalStep("CreateFeed", << >>, out, CreateFeed(out))

CallListFeeds ==
    \E out \in Outcomes("ListFeeds") :
        CalStep("ListFeeds", << >>, out, ListFeeds(out))

CallDeleteFeed ==
    \E out \in Outcomes("DeleteFeed") :
        CalStep("DeleteFeed", <<"f1">>, out, DeleteFeed(out))

CallCreateEvent ==
    \E out \in Outcomes("CreateEvent") :
        CalStep("CreateEvent", << >>, out, CreateEvent(out))

CallListEvents ==
    \E out \in Outcomes("ListEvents") :
        CalStep("ListEvents", <<"f1">>, out, ListEvents(out))

CallDeleteEvent ==
    \E out \in Outcomes("DeleteEvent") :
        CalStep("DeleteEvent", <<"e1">>, out, DeleteEvent(out))

\* SubscribeURL builds a string: no request, no error.
CallSubscribeURL ==
    /\ calcall.pc = "ready"
    /\ \E token \in FeedTokens :
           calcall' = [calcall EXCEPT
               !.pc = "returned", !.op = "SubscribeURL", !.arg = token,
               !.ret = Returned(SubscribeURL(calcall.client, token))]
    /\ UNCHANGED <<parser, loader, discall, fmtcall, cli>>

CalNext ==
    \/ CallCreateFeed
    \/ CallListFeeds
    \/ CallDeleteFeed
    \/ CallCreateEvent
    \/ CallListEvents
    \/ CallDeleteEvent
    \/ CallSubscribeURL

SpecCal == CalInit /\ [][CalNext]_vars

(***************************************************************************)
(* Claims about the calendar client (specification SpecCal).               *)
(***************************************************************************)
\* The call returned on a response (the HTTP client gave no error).
GotResponse == calcall.pc = "returned" /\ calcall.out.kind = "response"

IsSuccessStatus(st) == st >= 200 /\ st <= 299

\* C8: for each of the six operations a response whose status is outside
\* 200-299 makes the operation return an APIError with exactly that status
\* code, and no result value.
C8_NonSuccessIsAPIError ==
    (GotResponse /\ ~IsSuccessStatus(calcall.out.status)) =>
        /\ calcall.ret.err.kind = "APIError"
        /\ calcall.ret.err.StatusCode = calcall.out.status
        /\ calcall.ret.nil

\* DeleteFeed returned on a redirect that was not followed.
C8_Witness ==
    /\ GotResponse
    /\ calcall.op = "DeleteFeed"
    /\ calcall.out.status = 301
    /\ calcall.ret.err.kind = "APIError"

\* The members of a parsed body that are named `error`, exactly.
ErrorMembers(v) == {i \in 1..Len(v.m) : v.m[i].k = <<"error">>}

\* The body parses as JSON with an `error` string field.
HasErrorString(body) ==
    LET v == ParseJSON(body) IN
    v.kind = "object" /\ \E i \in ErrorMembers(v) : v.m[i].kind = "string"

ErrorString(body) ==
    LET v == ParseJSON(body)
        i == CHOOSE j \in ErrorMembers(v) : v.m[j].kind = "string"
    IN v.m[i].s

\* C9 as claimed: the message of an APIError is the body's `error` string
\* whenever the body parses as JSON with such a field, else the raw body.
C9_Original ==
    (GotResponse /\ calcall.ret.err.kind = "APIError") =>
        /\ calcall.ret.err.StatusCode = calcall.out.status
        /\ calcall.ret.err.Message =
              IF HasErrorString(calcall.out.body) THEN ErrorString(calcall.out.body)
              ELSE calcall.out.body

\* The members of a parsed body whose name is `error` ignoring case.
ErrorMembersFold(v) ==
    {i \in 1..Len(v.m) : v.m[i].k \in {<<"error">>, <<"Error">>}}

\* The body is a JSON object whose `error` members, named ignoring case, are
\* strings, one of them at least, the last one not empty.
HasNonEmptyErrorString(body) ==
    LET v == ParseJSON(body) IN
    /\ v.kind = "object"
    /\ ErrorMembersFold(v) # {}
    /\ \A i \in ErrorMembersFold(v) : v.m[i].kind = "string"
    /\ LET last == CHOOSE i \in ErrorMembersFold(v) : \A j \in ErrorMembersFold(v) : j <= i
       IN v.m[last].s # EmptyStr

LastErrorString(body) ==
    LET v == ParseJSON(body)
        last == CHOOSE i \in ErrorMembersFold(v) : \A j \in ErrorMembersFold(v) : j <= i
    IN v.m[last].s

\* C9, amended: the message of an APIError is the body's `error` string when
\* the body is a JSON object with a non-empty `error` string (the name matched
\* ignoring case); otherwise, an empty `error` string included, it is the raw
\* body.  The response's status code is attached in both cases.
C9_ErrorNormalization ==
    (GotResponse /\ calcall.ret.err.kind = "APIError") =>
        /\ calcall.ret.err.StatusCode = calcall.out.status
        /\ calcall.ret.err.Message =
              IF HasNonEmptyErrorString(calcall.out.body)
              THEN LastErrorString(calcall.out.body)
              ELSE calcall.out.body

\* An APIError was built from a body whose `error` string is empty: its
\* message is the raw body.
C9_Witness ==
    /\ GotResponse
    /\ calcall.ret.err.kind = "APIError"
    /\ calcall.out.body = <<"{", "\"error\"", ":", "\"\"", "}">>
    /\ calcall.ret.err.Message = calcall.out.body

\* C10 as claimed: every APIError carries a status outside 200-299, and a 2xx
\* response is never reported as an APIError.
C10_Original ==
    calcall.pc = "returned" =>
        /\ calcall.ret.err.kind = "APIError" =>
              (calcall.out.kind = "response" /\ ~IsSuccessStatus(calcall.out.status))
        /\ (GotResponse /\ IsSuccessStatus(calcall.out.status)) =>
              calcall.ret.err.kind # "APIError"

\* The one status each operation takes for success.
ExpectedStatus(op) ==
    CASE op \in {"CreateFeed", "CreateEvent"} -> 201
      [] op \in {"ListFeeds", "ListEvents"} -> 200
      [] op \in {"DeleteFeed", "DeleteEvent"} -> 204

\* C10, amended: an operation returns an APIError exactly when the service
\* responded with a status other than the one the operation expects (201 for
\* the creations, 200 for the lists, 204 for the deletions): every APIError
\* carries such a status, another 2xx code included, and a response with the
\* expected status is never reported as an APIError.
C10_APIErrorOnlyOnUnexpectedStatus ==
    calcall.pc = "returned" =>
        /\ calcall.ret.err.kind = "APIError" =>
              /\ calcall.out.kind = "response"
              /\ calcall.out.status # ExpectedStatus(calcall.op)
              /\ calcall.ret.err.StatusCode = calcall.out.status
        /\ (GotResponse /\ calcall.out.status = ExpectedStatus(calcall.op)) =>
              calcall.ret.err.kind # "APIError"

\* CreateFeed returned an APIError on a 200 response.
C10_Witness ==
    /\ GotResponse
    /\ calcall.op = "CreateFeed"
    /\ calcall.out.status = 200
    /\ calcall.ret.err.kind = "APIError"

\* The operations that decode the body of a response with the expected status.
DecodingOps == {"CreateFeed", "ListFeeds", "CreateEvent", "ListEvents"}

\* The body is valid JSON of the shape the operation expects: the whole text
\* is one JSON value that json.Unmarshal stores into the operation's result
\* type (a struct for the creations, a slice of structs for the lists).
ValidOfShape(op, body) ==
    CASE op = "CreateFeed" -> IntoStruct(ParseJSON(body), CreateFeedResponseShape).ok
      [] op = "CreateEvent" -> IntoStruct(ParseJSON(body), EventShape).ok
      [] op = "ListFeeds" -> IntoSlice(ParseJSON(body), FeedShape).ok
      [] op = "ListEvents" -> IntoSlice(ParseJSON(body), EventShape).ok

\* An error that is not an *APIError, and no result value.
OtherErrorNoResult(ret) ==
    /\ ret.err.kind \notin {"nil", "APIError"}
    /\ ret.nil

\* C11: a transport failure (no response obtained) and a decode failure (the
\* expected status, but a body that is not valid JSON of the expected shape)
\* each make the operation return an error that is not an APIError, with no
\* result value.
C11_ErrorKindsDistinct ==
    calcall.pc = "returned" =>
        /\ calcall.out.kind = "transport" => OtherErrorNoResult(calcall.ret)
        /\ ( /\ GotResponse
             /\ calcall.op \in DecodingOps
             /\ calcall.out.status = ExpectedStatus(calcall.op)
             /\ ~ValidOfShape(calcall.op, calcall.out.body) )
           => OtherErrorNoResult(calcall.ret)

(***************************************************************************)
(* The Discord client: one call of one operation on a client that          *)
(* discord.NewClient built, or one `pylon discord read`, which calls       *)
(* ReadMessages with what it reads from its arguments.  An operation is    *)
(* one step: it checks its settings, sends its request, gets the outcome   *)
(* and returns.                                                            *)
(***************************************************************************)
DiscordInit ==
    /\ discall \in { [DiscordIdle EXCEPT !.pc = "ready", !.client = c,
                                         !.cfgChannel = ch] :
                         c \in DiscordClients, ch \in {EmptyStr, <<"c1">>} }
    /\ parser = ParserIdle
    /\ loader = LoaderIdle
    /\ calcall = CalIdle
    /\ fmtcall = FormatIdle
    /\ cli = CliIdle

\* The step of an operation called with arg (and limit): o is what it did.
\* The outcome of the HTTP client is kept only when the client was called.
DiscordStep(op, arg, limit, out, o) ==
    /\ discall.pc = "ready"
    /\ discall' = [discall EXCEPT
           !.pc = "returned", !.op = op, !.arg = arg, !.limit = limit,
           !.out = IF o.reqs = << >> THEN NoOutcome ELSE out,
           !.reqs = o.reqs, !.resp = o.resp, !.ret = o.ret]
    /\ UNCHANGED <<parser, loader, calcall, fmtcall, cli>>

CallSendMessage ==
    /\ discall.pc = "ready"
    /\ \E message \in Messages, out \in SendOutcomes :
           DiscordStep("SendMessage", message, 0, out,
                       SendMessage(discall.client, message, out))

CallReadMessages ==
    /\ discall.pc = "ready"
    /\ \E channelID \in ChannelIDs, limit \in Limits, out \in ReadOutcomes :
           DiscordStep("ReadMessages", channelID, limit, out,
                       ReadMessages(discall.client, channelID, limit, out))

CallListChannels ==
    /\ discall.pc = "ready"
    /\ \E guildID \in GuildIDs, out \in ChannelsOutcomes :
           DiscordStep("ListChannels", guildID, 0, out,
                       ListChannels(discall.client, guildID, out))

\* runDiscord, case "read": the options, fatal when there is no channel id,
\* else client.ReadMessages(channelID, count), fatal on its error, and the
\* messages printed.  fatal ends the process with status 1.
RunDiscordRead ==
    /\ discall.pc = "ready"
    /\ \E args \in ReadArgs, out \in ReadRunOutcomes :
          \E opt \in {readOptions(discall.cfgChannel, args)} :
             IF opt.channelID = EmptyStr
             THEN discall' = [discall EXCEPT !.pc = "exited", !.argv = args,
                                             !.exit = 1]
             ELSE \E o \in {ReadMessages(discall.client, opt.channelID, opt.count, out)} :
                     discall' = [discall EXCEPT
                         !.pc = "exited", !.argv = args, !.op = "ReadMessages",
                         !.arg = opt.channelID, !.limit = opt.count,
                         !.out = IF o.reqs = << >> THEN NoOutcome ELSE out,
                         !.reqs = o.reqs, !.resp = o.resp, !.ret = o.ret,
                         !.exit = IF o.ret.err = NoError THEN 0 ELSE 1]
    /\ UNCHANGED <<parser, loader, calcall, fmtcall, cli>>

DiscordNext ==
    \/ CallSendMessage
    \/ CallReadMessages
    \/ CallListChannels
    \/ RunDiscordRead

SpecDiscord == DiscordInit /\ [][DiscordNext]_vars

(***************************************************************************)
(* Claims about the Discord client (specification SpecDiscord).            *)
(***************************************************************************)
\* An operation of the Discord client was called and has returned.
DiscordDone(op) == discall.pc \in {"returned", "exited"} /\ discall.op = op

\* A setting the operation needs is absent.
MissingSetting ==
    \/ DiscordDone("SendMessage") /\ discall.client.webhookURL = EmptyStr
    \/ DiscordDone("ReadMessages")
          /\ (discall.client.botToken = EmptyStr \/ discall.arg = EmptyStr)
    \/ DiscordDone("ListChannels")
          /\ (discall.client.botToken = EmptyStr \/ discall.arg = EmptyStr)

\* C12: SendMessage with an empty webhook URL, ReadMessages with an empty bot
\* token or an empty channel id, and ListChannels with an empty bot token or
\* an empty guild id each return an error and issue no HTTP request.
C12_ConfigErrorsBeforeNetwork ==
    MissingSetting =>
        /\ discall.ret.err # NoError
        /\ discall.ret.nil
        /\ discall.reqs = << >>
        /\ discall.out = NoOutcome

\* SendMessage returned its configuration error on a client with a bot token
\* and no webhook.
C12_Witness ==
    /\ DiscordDone("SendMessage")
    /\ discall.client.webhookURL = EmptyStr
    /\ discall.client.botToken # EmptyStr
    /\ discall.ret.err.kind = "webhook URL not configured"
    /\ discall.reqs = << >>

\* What a JSON decoder reads from an escaped character of a string literal.
unescapeChar(t) ==
    CASE t = "\\\"" -> "\""
      [] t = "\\\\" -> "\\"
      [] t = "\\u003c" -> "<"
      [] t = "\\ufffd" -> "<U+FFFD>"
      [] OTHER -> t

\* The body is a JSON object with the single member `content`, a string.
IsContentObject(body) ==
    /\ Len(body) >= 6
    /\ SubSeq(body, 1, 4) = <<"{", "\"content\"", ":", "\"">>
    /\ SubSeq(body, Len(body) - 1, Len(body)) = <<"\"", "}">>
    /\ \A i \in 5..(Len(body) - 2) : body[i] \notin {"\"", "\\"}

\* The text a JSON decoder reads from that member.
ContentOf(body) == [i \in 1..(Len(body) - 6) |-> unescapeChar(body[i + 4])]

\* SendMessage was called with a webhook configured, and has returned.
SentWithWebhook == DiscordDone("SendMessage") /\ discall.client.webhookURL # EmptyStr

\* The rule of SendMessage on the outcome: success exactly on 200 and 204,
\* else an error with the status code and the body.
StatusRule ==
    /\ discall.ret.err = NoError
          <=> (discall.out.kind = "response" /\ discall.out.status \in {200, 204})
    /\ (discall.out.kind = "response" /\ discall.out.status \notin {200, 204}) =>
          /\ discall.ret.err.StatusCode = discall.out.status
          /\ discall.ret.err.Message = discall.out.body

\* One POST to the webhook, with a JSON object of the single member `content`.
PostsContent ==
    /\ Len(discall.reqs) = 1
    /\ discall.reqs[1].method = "POST"
    /\ discall.reqs[1].url = discall.client.webhookURL
    /\ IsContentObject(discall.reqs[1].body)

\* C13 as claimed: the `content` posted equals the given text, whatever the
\* text; success exactly on 200 and 204, else an error with status and body.
C13_Original ==
    SentWithWebhook =>
        /\ PostsContent
        /\ ContentOf(discall.reqs[1].body) = discall.arg
        /\ StatusRule

\* The text with each byte that is not valid UTF-8 replaced by U+FFFD.
ToValidUTF8(text) ==
    [i \in 1..Len(text) |-> IF text[i] = "<0xFF>" THEN "<U+FFFD>" ELSE text[i]]

\* C13, amended: with a webhook configured SendMessage posts a JSON object
\* whose single field `content` decodes to the given text with every byte that
\* is not valid UTF-8 replaced by U+FFFD, hence to the given text itself when
\* it is valid UTF-8; it succeeds exactly when the status is 200 or 204, and
\* every other status yields an error with the status code and the body.
C13_SendMessage ==
    SentWithWebhook =>
        /\ PostsContent
        /\ ContentOf(discall.reqs[1].body) = ToValidUTF8(discall.arg)
        /\ ToValidUTF8(discall.arg) = discall.arg
              => ContentOf(discall.reqs[1].body) = discall.arg
        /\ StatusRule

\* A text with a double quote was posted and answered 201: an error that
\* carries 201 and the body.
C13_Witness ==
    /\ SentWithWebhook
    /\ discall.arg = <<"say", " ", "\"", "hi", "\"">>
    /\ discall.out.kind = "response"
    /\ discall.out.status = 201
    /\ discall.out.body = <<"boom">>
    /\ discall.ret.err.kind = "unexpected status"
    /\ discall.ret.err.StatusCode = 201

\* ReadMessages returned messages (no error).
ReadSucceeded == DiscordDone("ReadMessages") /\ discall.ret.err = NoError

\* The message sequence of the server's response, as its JSON array lists it.
ServerMessages == IntoSlice(ParseJSON(discall.out.body), MessageShape).items

\* The order of the timestamps of the model (an ISO-8601 text orders as text).
TimeRank(ts) ==
    CASE ts = <<"2026-02-18T10:30:00Z">> -> 1
      [] ts = <<"2026-02-18T10:31:00Z">> -> 2
      [] ts = <<"2026-02-18T10:32:00Z">> -> 3
      [] OTHER -> 0

NewestFirst(msgs) ==
    \A i, j \in 1..Len(msgs) :
        i < j => TimeRank(msgs[i][<<"timestamp">>]) >= TimeRank(msgs[j][<<"timestamp">>])

OldestFirst(msgs) ==
    \A i, j \in 1..Len(msgs) :
        i < j => TimeRank(msgs[i][<<"timestamp">>]) <= TimeRank(msgs[j][<<"timestamp">>])

\* C14: ReadMessages returns exactly the server's message sequence reversed
\* (same length, element i of the result is element n-1-i of the response,
\* counting from 0); hence for a newest-first response the result is in
\* non-decreasing timestamp order.
C14_ReadReversed ==
    ReadSucceeded =>
        LET srv == ServerMessages
            n   == Len(srv)
        IN /\ ~discall.ret.nil
           /\ Len(discall.ret.value) = n
           /\ \A i \in 1..n : discall.ret.value[i] = srv[n + 1 - i]
           /\ NewestFirst(srv) => OldestFirst(discall.ret.value)

\* The response listed the messages 3, 2, 1 and the result lists 1, 2, 3.
C14_Witness ==
    /\ ReadSucceeded
    /\ discall.out.body =
          ArrayBody(<<MessageObject(3), MessageObject(2), MessageObject(1)>>)
    /\ Len(discall.ret.value) = 3
    /\ discall.ret.value[1][<<"id">>] = <<"1">>
    /\ discall.ret.value[2][<<"id">>] = <<"2">>
    /\ discall.ret.value[3][<<"id">>] = <<"3">>

\* ReadMessages was called and put a request on the network.
ReadRequested == DiscordDone("ReadMessages") /\ discall.reqs # << >>

\* The limit written in the query of the request, as text.
LimitInRequest ==
    LET url == discall.reqs[1].url IN
    IF Len(url) >= 2 /\ url[Len(url) - 1] = "/messages?limit=" THEN url[Len(url)]
    ELSE "none"

\* The limit the claim expects for a requested limit.
ExpectedLimit(limit) == IF 1 <= limit /\ limit <= 100 THEN limit ELSE 20

\* The number a --count text denotes (0, which is out of range, when it is
\* not the numeral of an int).
CountValue(text) == IF Atoi(text).ok THEN Atoi(text).n ELSE 0

\* `pylon discord read` was given one option, a --count, in either form.
OnlyCount(text) ==
    /\ discall.pc = "exited"
    /\ \/ discall.argv = <<<<"read">>, <<"--count">>, text>>
       \/ discall.argv = <<<<"read">>, <<"--count=">> \o text>>

\* C15: the limit in the request of ReadMessages is always within 1..100: the
\* requested limit when it is within 1..100, else the default 20; and so for
\* every --count value given to `pylon discord read`.
C15_LimitClamped ==
    ReadRequested =>
        /\ \E k \in 1..100 : LimitInRequest = ToString(k)
        /\ LimitInRequest = ToString(ExpectedLimit(discall.limit))
        /\ \A text \in CountTexts :
              OnlyCount(text) => LimitInRequest = ToString(ExpectedLimit(CountValue(text)))

\* `pylon discord read --count 101` asked for 20 messages.
C15_Witness ==
    /\ ReadRequested
    /\ OnlyCount(<<"101">>)
    /\ discall.limit = 101
    /\ LimitInRequest = "20"

\* ListChannels returned channels (no error).
ListSucceeded == DiscordDone("ListChannels") /\ discall.ret.err = NoError

\* The channel list of the server's response, as its JSON array lists it.
ServerChannels == IntoSlice(ParseJSON(discall.out.body), ChannelShape).items

\* The places of a channel list that hold a channel of type 0.
TextPlaces(all) == {i \in 1..Len(all) : all[i][<<"type">>] = <<"0">>}

\* C16: ListChannels returns exactly the subsequence of the server's channel
\* list whose type equals 0: every returned channel has type 0, every type-0
\* channel of the response is returned exactly once, and their relative
\* order is preserved.
C16_OnlyTextChannels ==
    ListSucceeded =>
        LET res == discall.ret.value
            srv == ServerChannels
        IN /\ \A i \in 1..Len(res) : res[i][<<"type">>] = <<"0">>
           /\ Len(res) = Cardinality(TextPlaces(srv))
           /\ \E at \in [1..Len(res) -> TextPlaces(srv)] :
                 /\ \A i \in 1..Len(res) : res[i] = srv[at[i]]
                 /\ \A i, j \in 1..Len(res) : i < j => at[i] < at[j]

\* The response listed the types 0, 2, 0 and the result is its first and its
\* third channel.
C16_Witness ==
    /\ ListSucceeded
    /\ discall.out.body =
          ArrayBody(<<ChannelObject(1), ChannelObject(2), ChannelObject(3)>>)
    /\ Len(discall.ret.value) = 2
    /\ discall.ret.value[1][<<"id">>] = <<"1">>
    /\ discall.ret.value[2][<<"id">>] = <<"3">>

\* An operation that uses the bot API was called and has returned.
BotCallDone == DiscordDone("ReadMessages") \/ DiscordDone("ListChannels")

\* C17: every request issued to the bot API (by ReadMessages or ListChannels)
\* carries the header Authorization = "Bot " followed by the configured bot
\* token, and no bot-API request is issued with an empty token.
C17_BotAuthorization ==
    BotCallDone =>
        \A i \in 1..Len(discall.reqs) :
            /\ discall.reqs[i].method = "GET"
            /\ discall.reqs[i].Authorization = <<"Bot ">> \o discall.client.botToken
            /\ discall.client.botToken # EmptyStr
            /\ discall.reqs[i].Authorization # <<"Bot ">>

\* ListChannels issued its request with the header "Bot t".
C17_Witness ==
    /\ DiscordDone("ListChannels")
    /\ Len(discall.reqs) = 1
    /\ discall.reqs[1].url = apiBase \o <<"/guilds/", "g1", "/channels">>
    /\ discall.reqs[1].Authorization = <<"Bot ", "t">>

(***************************************************************************)
(* Claims about SubscribeURL (specification SpecCal).                      *)
(***************************************************************************)
\* C18: SubscribeURL(token) returns exactly base URL + "/cal/" + token +
\* ".ics" for every base URL and token, issues no network request and cannot
\* fail.
C18_SubscribeURL ==
    (calcall.pc = "returned" /\ calcall.op = "SubscribeURL") =>
        LET url  == calcall.ret.value
            base == calcall.client.baseURL
            n    == Len(base)
            m    == Len(calcall.arg)
        IN /\ Len(url) = n + m + 2
           /\ SubSeq(url, 1, n) = base
           /\ url[n + 1] = "/cal/"
           /\ SubSeq(url, n + 2, n + m + 1) = calcall.arg
           /\ url[n + m + 2] = ".ics"
           /\ calcall.ret.err = NoError
           /\ ~calcall.ret.nil
           /\ calcall.sent = 0
           /\ calcall.out = NoOutcome

\* SubscribeURL returned on a base URL that ends with "/" and a token with a
\* "/" inside: both are kept as they are.
C18_Witness ==
    /\ calcall.pc = "returned"
    /\ calcall.op = "SubscribeURL"
    /\ calcall.client.baseURL = <<"https://cal.example.com", "/">>
    /\ calcall.arg = <<"a", "/", "b">>
    /\ calcall.ret.value = <<"https://cal.example.com", "/", "/cal/", "a", "/", "b", ".ics">>

(***************************************************************************)
(* Both clients: an invocation calls one operation of one of them.         *)
(***************************************************************************)
ClientsInit == CalInit \/ DiscordInit

ClientsNext ==
    \/ CallCreateFeed
    \/ CallListFeeds
    \/ CallDeleteFeed
    \/ CallCreateEvent
    \/ CallListEvents
    \/ CallDeleteEvent
    \/ CallSubscribeURL
    \/ CallSendMessage
    \/ CallReadMessages
    \/ CallListChannels
    \/ RunDiscordRead

SpecClients == ClientsInit /\ [][ClientsNext]_vars

(***************************************************************************)
(* Claims about every client operation (specification SpecClients).        *)
(***************************************************************************)
\* One of the six calendar operations that use the network has returned.
CalDone == calcall.pc = "returned" /\ calcall.op \in CalOps

\* One of the three Discord operations has returned.
AnyDiscordDone ==
    DiscordDone("SendMessage") \/ DiscordDone("ReadMessages") \/ DiscordDone("ListChannels")

\* The operation failed after its request went out: a transport error, a
\* status it does not expect, or a body it could not decode.
FailedAfterRequest ==
    \/ CalDone /\ calcall.sent > 0 /\ calcall.ret.err # NoError
    \/ AnyDiscordDone /\ discall.reqs # << >> /\ discall.ret.err # NoError

RequestNotBuilt ==
    \/ CalDone /\ calcall.out.kind = "badurl"
    \/ AnyDiscordDone /\ discall.ret.err.kind = "build request"

C20_BodyClosed ==
    /\ CalDone =>
          /\ calcall.resp # "open"
          /\ calcall.out.kind = "response" => calcall.resp = "closed"
    /\ AnyDiscordDone =>
          /\ discall.resp # "open"
          /\ discall.out.kind = "response" => discall.resp = "closed"

\* ListEvents got a 200 whose body it could not decode, and returned with the
\* body closed.
C20_Witness ==
    /\ CalDone
    /\ calcall.op = "ListEvents"
    /\ calcall.out.kind = "response"
    /\ calcall.out.status = 200
    /\ calcall.ret.err = DecodeError
    /\ calcall.resp = "closed"

(***************************************************************************)
(* FormatMessages as a state machine: the loop over msgs, one message an   *)
(* iteration, and one call of Author.DisplayName.                          *)
(***************************************************************************)
FormatInit ==
    /\ fmtcall = [FormatIdle EXCEPT !.pc = "ready"]
    /\ parser = ParserIdle
    /\ loader = LoaderIdle
    /\ calcall = CalIdle
    /\ discall = DiscordIdle
    /\ cli = CliIdle

\* for _, m := range msgs: the body of the loop on the next message, m.  mark
\* is the length of the builder when the iteration starts.
FormatIter(m) ==
    /\ fmtcall.pc \in {"ready", "loop"}
    /\ Len(fmtcall.msgs) < MaxFormat
    /\ fmtcall' = [fmtcall EXCEPT
           !.pc = "loop", !.op = "FormatMessages", !.msgs = Append(@, m),
           !.mark = Len(fmtcall.sb), !.sb = @ \o formatLine(m)]
    /\ UNCHANGED <<parser, loader, calcall, discall, cli>>

\* return sb.String()
FormatReturn ==
    /\ fmtcall.pc \in {"ready", "loop"}
    /\ fmtcall' = [fmtcall EXCEPT !.pc = "returned", !.op = "FormatMessages",
                                  !.out = fmtcall.sb]
    /\ UNCHANGED <<parser, loader, calcall, discall, cli>>

\* One call of a.DisplayName().
CallDisplayName(a) ==
    /\ fmtcall.pc = "ready"
    /\ fmtcall' = [fmtcall EXCEPT !.pc = "returned", !.op = "DisplayName",
                                  !.author = a, !.name = DisplayName(a)]
    /\ UNCHANGED <<parser, loader, calcall, discall, cli>>

FormatNext ==
    \/ \E m \in FormatInputs : FormatIter(m)
    \/ FormatReturn
    \/ \E a \in Authors : CallDisplayName(a)

SpecFormat == FormatInit /\ [][FormatNext]_vars

(***************************************************************************)
(* Claims about FormatMessages and DisplayName (specification SpecFormat). *)
(***************************************************************************)
\* The loop has run at least once: the last message formatted and the text
\* its iteration wrote.
Iterated == fmtcall.op = "FormatMessages" /\ fmtcall.msgs # << >>
LastMessage == fmtcall.msgs[Len(fmtcall.msgs)]
Appended == SubSeq(fmtcall.sb, fmtcall.mark + 1, Len(fmtcall.sb))

\* The first 19 characters of a timestamp.
First19(ts) == [i \in 1..19 |-> ts[i]]

\* C21: every message is rendered with its timestamp cut to its first 19
\* characters when the timestamp has at least 19 characters, and with its
\* timestamp unchanged when it is shorter; "2026-02-18T10:30:00.000Z" is
\* rendered as "2026-02-18T10:30:00".
C21_TimestampCut ==
    Iterated =>
        /\ Len(LastMessage.Timestamp) >= 19 =>
               HasPrefix(Appended,
                         <<"[">> \o First19(LastMessage.Timestamp) \o <<"]", " ">>)
        /\ Len(LastMessage.Timestamp) < 19 =>
               HasPrefix(Appended, <<"[">> \o LastMessage.Timestamp \o <<"]", " ">>)
        /\ LastMessage.Timestamp = Stamp24 =>
               HasPrefix(Appended,
                         <<"[", "2", "0", "2", "6", "-", "0", "2", "-", "1", "8", "T",
                           "1", "0", ":", "3", "0", ":", "0", "0", "]", " ">>)

\* A short timestamp was rendered first and a long one after it.
C21_Witness ==
    /\ Iterated
    /\ Len(fmtcall.msgs) = 2
    /\ Len(fmtcall.msgs[1].Timestamp) = 18
    /\ LastMessage.Timestamp = Stamp24
    /\ fmtcall.mark > 0

\* The placeholder as the specification writes it.
Placeholder == <<"(", "no", " ", "text", ")">>

\* What is shown for a content.
Shown(content) == IF content = EmptyStr THEN Placeholder ELSE content

\* The end of every line: the message's own content, after a colon and a space.
OwnTail(m) == <<":", " ">> \o Shown(m.Content) \o <<"\n">>

\* The character a token written by %q stands for.
unquoteChar(t) ==
    CASE t = "\\\"" -> "\""
      [] t = "\\\\" -> "\\"
      [] t = "\\n" -> "\n"
      [] t = "\\xff" -> "<0xFF>"
      [] OTHER -> t

\* The quoted text that ends the reply clause of the line of a reply: the n
\* tokens between the double quotes that come before "): content".
ParentQuoted(m, n) ==
    LET end == Len(Appended) - Len(OwnTail(m)) - 1
    IN [i \in 1..(n + 2) |-> Appended[end - (n + 2) + i]]

\* C22: empty content is rendered as the placeholder `(no text)`: the
\* message's own content in the plain and in the reply form, and the parent's
\* content inside the reply clause; content that is not empty is rendered
\* itself, never the placeholder in its place.
C22_EmptyContentPlaceholder ==
    Iterated =>
        /\ HasSuffix(Appended, OwnTail(LastMessage))
        /\ LastMessage.Content = EmptyStr =>
               HasSuffix(Appended, <<":", " ", "(", "no", " ", "text", ")", "\n">>)
        /\ ~LastMessage.Reference.nil =>
               LET parent == LastMessage.Reference.Content
                   quoted == ParentQuoted(LastMessage, Len(Shown(parent)))
               IN /\ Len(Appended) >= Len(OwnTail(LastMessage)) + Len(Shown(parent)) + 3
                  /\ quoted[1] = "\"" /\ quoted[Len(quoted)] = "\""
                  /\ [i \in 1..Len(Shown(parent)) |-> unquoteChar(quoted[i + 1])]
                         = Shown(parent)
                  /\ Appended[Len(Appended) - Len(OwnTail(LastMessage))] = ")"

\* A reply whose own content and whose parent's content are both empty was
\* rendered after a plain message with content.
C22_Witness ==
    /\ Iterated
    /\ Len(fmtcall.msgs) = 2
    /\ fmtcall.msgs[1].Reference.nil /\ fmtcall.msgs[1].Content # EmptyStr
    /\ ~LastMessage.Reference.nil
    /\ LastMessage.Content = EmptyStr
    /\ LastMessage.Reference.Content = EmptyStr

\* FormatMessages has returned.
Formatted == fmtcall.pc = "returned" /\ fmtcall.op = "FormatMessages"

\* The timestamp and the name as they are shown.
ShownStamp(ts) == IF Len(ts) >= 19 THEN First19(ts) ELSE ts
ShownName(a) == IF a.GlobalName # EmptyStr THEN a.GlobalName ELSE a.Username

\* The line of a message in the form the specification gives, with the
\* parent's content between double quotes as it is.
LiteralLine(m) ==
    IF m.Reference.nil
    THEN <<"[">> \o ShownStamp(m.Timestamp) \o <<"]", " ">> \o ShownName(m.Author)
            \o <<":", " ">> \o Shown(m.Content) \o <<"\n">>
    ELSE <<"[">> \o ShownStamp(m.Timestamp) \o <<"]", " ">> \o ShownName(m.Author)
            \o <<" ", "(", "reply", " ", "to", " ">> \o ShownName(m.Reference.Author)
            \o <<":", " ", "\"">> \o Shown(m.Reference.Content) \o <<"\"", ")", ":", " ">>
            \o Shown(m.Content) \o <<"\n">>

RECURSIVE LiteralText(_)
LiteralText(msgs) ==
    IF msgs = << >> THEN << >> ELSE LiteralLine(Head(msgs)) \o LiteralText(Tail(msgs))

\* A quoted Go string: a double quote, a backslash and a newline inside it
\* are written as backslash escapes, a byte that is not valid UTF-8 as \xff.
GoQuoted(text) ==
    <<"\"">> \o [i \in 1..Len(text) |->
                    CASE text[i] = "\"" -> "\\\""
                      [] text[i] = "\\" -> "\\\\"
                      [] text[i] = "\n" -> "\\n"
                      [] text[i] = "<0xFF>" -> "\\xff"
                      [] OTHER -> text[i]]
        \o <<"\"">>

\* The record of a message: the same form, with the parent's content as a
\* quoted Go string.
RecordOf(m) ==
    IF m.Reference.nil
    THEN <<"[">> \o ShownStamp(m.Timestamp) \o <<"]", " ">> \o ShownName(m.Author)
            \o <<":", " ">> \o Shown(m.Content) \o <<"\n">>
    ELSE <<"[">> \o ShownStamp(m.Timestamp) \o <<"]", " ">> \o ShownName(m.Author)
            \o <<" ", "(", "reply", " ", "to", " ">> \o ShownName(m.Reference.Author)
            \o <<":", " ">> \o GoQuoted(Shown(m.Reference.Content)) \o <<")", ":", " ">>
            \o Shown(m.Content) \o <<"\n">>

RECURSIVE RecordText(_)
RecordText(msgs) ==
    IF msgs = << >> THEN << >> ELSE RecordOf(Head(msgs)) \o RecordText(Tail(msgs))

Newlines(text) == Cardinality({i \in 1..Len(text) : text[i] = "\n"})

\* Nothing that the line of m shows as it is holds a newline.
OnOneLine(m) ==
    \A text \in {m.Timestamp, ShownName(m.Author), m.Content,
                 ShownName(m.Reference.Author)} :
        \A i \in 1..Len(text) : text[i] # "\n"

\* C23 as stated: the output is one newline-terminated line per message, in
\* input order, of the form `[ts] name (reply to parent-name:
\* "parent-content"): content` exactly when the message has a parent
\* reference and `[ts] name: content` exactly when it has none; an empty
\* list gives the empty string.
C23_Original ==
    Formatted =>
        /\ fmtcall.out = LiteralText(fmtcall.msgs)
        /\ Newlines(fmtcall.out) = Len(fmtcall.msgs)

\* C23: the output is one newline-terminated record per message, in input
\* order, of the reply form exactly when the message has a parent reference
\* and of the plain form exactly when it has none, where the parent's content
\* is written as a quoted Go string; the records are one line each when no
\* timestamp, name or own content holds a newline; an empty list gives the
\* empty string.
C23_OneRecordPerMessage ==
    Formatted =>
        /\ fmtcall.out = RecordText(fmtcall.msgs)
        /\ (\A i \in 1..Len(fmtcall.msgs) : OnOneLine(fmtcall.msgs[i])) =>
               Newlines(fmtcall.out) = Len(fmtcall.msgs)
        /\ fmtcall.msgs = << >> => fmtcall.out = EmptyStr

\* A reply to a parent whose content holds a double quote, then a plain
\* message of two lines, were formatted.
C23_Witness ==
    /\ Formatted
    /\ Len(fmtcall.msgs) = 2
    /\ ~fmtcall.msgs[1].Reference.nil
    /\ \E i \in 1..Len(fmtcall.msgs[1].Reference.Content) :
           fmtcall.msgs[1].Reference.Content[i] = "\""
    /\ fmtcall.msgs[2].Reference.nil
    /\ ~OnOneLine(fmtcall.msgs[2])
    /\ Newlines(fmtcall.out) = 3

\* The text of the line after the timestamp: from the name on.
FromName(m) ==
    SubSeq(Appended, Len(ShownStamp(m.Timestamp)) + 4, Len(Appended))

\* C24: an author's display name is the global name when that is not empty
\* and the username otherwise, both when DisplayName is called and in the
\* lines of FormatMessages, for the author of the message and for the author
\* of the parent in a reply clause.
C24_DisplayNameRule ==
    /\ (fmtcall.pc = "returned" /\ fmtcall.op = "DisplayName") =>
           /\ fmtcall.author.GlobalName # EmptyStr =>
                  fmtcall.name = fmtcall.author.GlobalName
           /\ fmtcall.author.GlobalName = EmptyStr =>
                  fmtcall.name = fmtcall.author.Username
    /\ (Iterated /\ LastMessage.Reference.nil) =>
           HasPrefix(FromName(LastMessage),
                     ShownName(LastMessage.Author) \o <<":", " ">>)
    /\ (Iterated /\ ~LastMessage.Reference.nil) =>
           HasPrefix(FromName(LastMessage),
                     ShownName(LastMessage.Author)
                         \o <<" ", "(", "reply", " ", "to", " ">>
                         \o ShownName(LastMessage.Reference.Author) \o <<":", " ">>)

\* A reply was rendered whose author has a global name and whose parent's
\* author has a username only.
C24_Witness ==
    /\ Iterated
    /\ ~LastMessage.Reference.nil
    /\ LastMessage.Author.GlobalName # EmptyStr
    /\ LastMessage.Author.Username # EmptyStr
    /\ LastMessage.Reference.Author.GlobalName = EmptyStr
    /\ LastMessage.Reference.Author.Username # EmptyStr

(***************************************************************************)
(* One run of the program: main, runCal or runDiscord, and the handler of  *)
(* the command.  cli.args holds the arguments of the function the run is   *)
(* in; a call of fatal, or of a usage function followed by os.Exit(1), is  *)
(* an exit with status 1, a return from main an exit with status 0, a      *)
(* panic an exit with status 2.                                            *)
(***************************************************************************)
MainInit ==
    /\ cli \in { [CliIdle EXCEPT !.pc = "main", !.argv = a, !.world = w] :
                     a \in MainArgs, w \in MainWorlds }
               \cup { [CliIdle EXCEPT !.pc = "main", !.argv = a,
                                      !.world = CHOOSE w \in MainWorlds : w.rc = "missing"] :
                          a \in EventAddArgs }
    /\ parser = ParserIdle
    /\ loader = LoaderIdle
    /\ calcall = CalIdle
    /\ discall = DiscordIdle
    /\ fmtcall = FormatIdle

\* The process ends without having called the client.
CliExit(code, text) ==
    cli' = [cli EXCEPT !.pc = "exited", !.exit = code, !.stderr = text]

\* The process calls one operation of its client, which does o, prints what
\* came back or calls fatal on the error, and ends.
CliCall(op, o) ==
    cli' = [cli EXCEPT !.pc = "exited", !.op = op, !.ops = @ + 1,
                       !.reqs = @ \o o.reqs, !.resp = o.resp, !.ret = o.ret,
                       !.exit = IF o.ret.err = NoError THEN 0 ELSE 1,
                       !.stderr = IF o.ret.err = NoError THEN "" ELSE "pylon: command"]

\* main: the switch on os.Args[1].
Main ==
    /\ cli.pc = "main"
    /\ IF Len(cli.argv) < 1 THEN CliExit(1, "usage")
       ELSE IF cli.argv[1] = <<"version">> THEN CliExit(0, "")
       ELSE IF cli.argv[1] = <<"cal">>
       THEN (IF Len(cli.argv) < 2 THEN CliExit(1, "usage")
             ELSE cli' = [cli EXCEPT !.pc = "runCal", !.args = Tail(cli.argv)])
       ELSE IF cli.argv[1] = <<"discord">>
       THEN (IF Len(cli.argv) < 2 THEN CliExit(1, "usage")
             ELSE cli' = [cli EXCEPT !.pc = "runDiscord", !.args = Tail(cli.argv)])
       ELSE IF cli.argv[1] \in { <<"help">>, <<"--", "help">>, <<"-h">> }
       THEN CliExit(0, "usage")
       ELSE CliExit(1, "usage")
    /\ UNCHANGED <<parser, loader, calcall, discall, fmtcall>>

\* runCal and runDiscord: cfg, err := config.Load(); fatal on the error.
LoadConfig ==
    /\ cli.pc \in {"runCal", "runDiscord"}
    /\ \E res \in {Load(cli.world)} :
          IF res.err # "nil"
          THEN cli' = [cli EXCEPT !.pc = "exited", !.loads = @ + 1, !.exit = 1,
                                  !.stderr = "pylon: config"]
          ELSE cli' = [cli EXCEPT !.pc = IF cli.pc = "runCal" THEN "runCal: loaded"
                                         ELSE "runDiscord: loaded",
                                  !.loads = @ + 1, !.cfg = res.cfg]
    /\ UNCHANGED <<parser, loader, calcall, discall, fmtcall>>

\* runCal after Load: the base URL, cal.NewClient(url), and the switch on
\* rest[0].
RunCal ==
    /\ cli.pc = "runCal: loaded"
    /\ \E o \in {overrideURL(cli.cfg, cli.args)} :
          \E c \in {[NoClient EXCEPT !.kind = "cal", !.baseURL = o.url]} :
             IF Len(o.rest) < 1
             THEN cli' = [cli EXCEPT !.pc = "exited", !.cfg = o.cfg, !.client = c,
                                     !.exit = 1, !.stderr = "usage"]
             ELSE IF o.rest[1] \in { <<"feed">>, <<"event">> }
             THEN (IF Len(o.rest) < 2
                   THEN cli' = [cli EXCEPT !.pc = "exited", !.cfg = o.cfg, !.client = c,
                                           !.exit = 1, !.stderr = "usage"]
                   ELSE cli' = [cli EXCEPT
                            !.pc = IF o.rest[1] = <<"feed">> THEN "runCalFeed"
                                   ELSE "runCalEvent",
                            !.cfg = o.cfg, !.client = c, !.args = Tail(o.rest)])
             ELSE IF o.rest[1] = <<"subscribe">>
             THEN cli' = [cli EXCEPT !.pc = "runCalSubscribe", !.cfg = o.cfg,
                                     !.client = c, !.args = Tail(o.rest)]
             ELSE cli' = [cli EXCEPT !.pc = "exited", !.cfg = o.cfg, !.client = c,
                                     !.exit = 1, !.stderr = "usage"]
    /\ UNCHANGED <<parser, loader, calcall, discall, fmtcall>>

\* What a command of runCalFeed or runCalEvent comes to before the client is
\* called: the process ends (usage or fatal), or one method of the client is
\* called with an argument and a request body.
Ends(code, text) ==
    [kind |-> "exit", code |-> code, text |-> text, op |-> "none",
     arg |-> EmptyStr, body |-> << >>]

Calls(op, arg, body) ==
    [kind |-> "call", code |-> 0, text |-> "", op |-> op, arg |-> arg, body |-> body]

\* runCalFeed: the switch on args[0], up to the call of the client.
feedCommand(args) ==
    IF args[1] = <<"create">>
    THEN (IF Len(args) < 2 THEN Ends(1, "pylon: usage")
          ELSE IF Len(args) >= 3
          THEN Calls("CreateFeed", EmptyStr,
                     marshalFeed(Join(SubSeq(args, 2, Len(args) - 1), <<" ">>),
                                 args[Len(args)]))
          ELSE Calls("CreateFeed", EmptyStr,
                     marshalFeed(Join(SubSeq(args, 2, Len(args)), <<" ">>), EmptyStr)))
    ELSE IF args[1] \in { <<"list">>, <<"ls">> }
    THEN Calls("ListFeeds", EmptyStr, << >>)
    ELSE IF args[1] \in { <<"delete">>, <<"rm">> }
    THEN (IF Len(args) < 2 THEN Ends(1, "pylon: usage")
          ELSE Calls("DeleteFeed", args[2], << >>))
    ELSE Ends(1, "usage")

\* runCalEvent: the switch on args[0], up to the call of the client; r is what
\* parseEventFlags made of the arguments of "add".
eventCommand(args, r) ==
    IF args[1] \in { <<"add">>, <<"create">> }
    THEN (IF r.kind = "panic" THEN Ends(2, "panic: index out of range")
          ELSE IF r.kind # "request" THEN Ends(1, "pylon: flags")
          ELSE Calls("CreateEvent", EmptyStr, marshalEvent(r.req)))
    ELSE IF args[1] \in { <<"list">>, <<"ls">> }
    THEN (IF parseFeedIDFlag(Tail(args), 1) = EmptyStr
          THEN Ends(1, "pylon: usage")
          ELSE Calls("ListEvents", parseFeedIDFlag(Tail(args), 1), << >>))
    ELSE IF args[1] \in { <<"delete">>, <<"rm">> }
    THEN (IF Len(args) < 2 THEN Ends(1, "pylon: usage")
          ELSE Calls("DeleteEvent", args[2], << >>))
    ELSE Ends(1, "usage")

\* The command ends the process, or calls its method of the client, which
\* does out, prints what came back or calls fatal on the error, and ends.
RunCommand(cmd, r, out) ==
    IF cmd.kind = "exit"
    THEN cli' = [cli EXCEPT !.pc = "exited", !.event = r, !.exit = cmd.code,
                            !.stderr = cmd.text]
    ELSE \E o \in {calCall(cli.client, cmd.op, cmd.arg, cmd.body, out)} :
            cli' = [cli EXCEPT
                !.pc = "exited", !.event = r, !.op = cmd.op,
                !.ops = @ + 1, !.reqs = @ \o o.reqs, !.resp = o.resp,
                !.ret = o.ret,
                !.exit = IF o.ret.err = NoError THEN 0 ELSE 1,
                !.stderr = IF o.ret.err = NoError THEN "" ELSE "pylon: command"]

\* runCalFeed: the switch on args[0] and the one call.
RunCalFeed(out) ==
    /\ cli.pc = "runCalFeed"
    /\ RunCommand(feedCommand(cli.args), cli.event, out)
    /\ UNCHANGED <<parser, loader, calcall, discall, fmtcall>>

\* runCalEvent: the switch on args[0], parseEventFlags for "add", and the one
\* call.
RunCalEvent(out) ==
    /\ cli.pc = "runCalEvent"
    /\ \E r \in { IF cli.args[1] \in { <<"add">>, <<"create">> }
                  THEN parseEventFlags(Tail(cli.args)) ELSE cli.event } :
          RunCommand(eventCommand(cli.args, r), r, out)
    /\ UNCHANGED <<parser, loader, calcall, discall, fmtcall>>

\* runCalSubscribe: client.SubscribeURL(token) and the two URLs printed.
RunCalSubscribe ==
    /\ cli.pc = "runCalSubscribe"
    /\ IF Len(cli.args) < 1 THEN CliExit(1, "pylon: usage")
       ELSE CliCall("SubscribeURL",
                    Outcome(Returned(SubscribeURL(cli.client, cli.args[1])), << >>,
                            "none"))
    /\ UNCHANGED <<parser, loader, calcall, discall, fmtcall>>

\* runDiscord after Load: discord.NewClient and the switch on args[0].
RunDiscord(out) ==
    /\ cli.pc = "runDiscord: loaded"
    /\ LET args == cli.args
           c == [NoClient EXCEPT !.kind = "discord",
                                 !.botToken = cli.cfg.DiscordBotToken,
                                 !.webhookURL = cli.cfg.DiscordWebhook]
       IN
       IF args[1] \in { <<"msg">>, <<"send">> }
       THEN (IF Len(args) < 2
             THEN cli' = [cli EXCEPT !.pc = "exited", !.client = c, !.exit = 1,
                                     !.stderr = "pylon: usage"]
             ELSE \E o \in {SendMessage(c, Join(Tail(args), <<" ">>), out)} :
                     cli' = [cli EXCEPT
                         !.pc = "exited", !.client = c, !.op = "SendMessage",
                         !.ops = @ + 1, !.reqs = @ \o o.reqs, !.resp = o.resp,
                         !.ret = o.ret, !.exit = IF o.ret.err = NoError THEN 0 ELSE 1,
                         !.stderr = IF o.ret.err = NoError THEN ""
                                    ELSE "pylon: command"])
       ELSE IF args[1] = <<"read">>
       THEN \E opt \in {readOptions(cli.cfg.DiscordChannelID, args)} :
               IF opt.channelID = EmptyStr
               THEN cli' = [cli EXCEPT !.pc = "exited", !.client = c, !.exit = 1,
                                       !.stderr = "pylon: channel ID required"]
               ELSE \E o \in {ReadMessages(c, opt.channelID, opt.count, out)} :
                       cli' = [cli EXCEPT
                           !.pc = "exited", !.client = c, !.op = "ReadMessages",
                           !.ops = @ + 1, !.reqs = @ \o o.reqs, !.resp = o.resp,
                           !.ret = o.ret,
                           !.exit = IF o.ret.err = NoError THEN 0 ELSE 1,
                           !.stderr = IF o.ret.err = NoError THEN ""
                                      ELSE "pylon: command"]
       ELSE IF args[1] = <<"channels">>
       THEN \E guildID \in {guildFlags(args, 2, cli.cfg.DiscordGuildID)} :
               IF guildID = EmptyStr
               THEN cli' = [cli EXCEPT !.pc = "exited", !.client = c, !.exit = 1,
                                       !.stderr = "pylon: guild ID required"]
               ELSE \E o \in {ListChannels(c, guildID, out)} :
                       cli' = [cli EXCEPT
                           !.pc = "exited", !.client = c, !.op = "ListChannels",
                           !.ops = @ + 1, !.reqs = @ \o o.reqs, !.resp = o.resp,
                           !.ret = o.ret,
                           !.exit = IF o.ret.err = NoError THEN 0 ELSE 1,
                           !.stderr = IF o.ret.err = NoError THEN ""
                                      ELSE "pylon: command"]
       ELSE cli' = [cli EXCEPT !.pc = "exited", !.client = c, !.exit = 1,
                               !.stderr = "usage"]
    /\ UNCHANGED <<parser, loader, calcall, discall, fmtcall>>

MainNext ==
    \/ Main
    \/ LoadConfig
    \/ RunCal
    \/ \E out \in MainOutcomes : RunCalFeed(out)
    \/ \E out \in MainOutcomes : RunCalEvent(out)
    \/ RunCalSubscribe
    \/ \E out \in MainOutcomes : RunDiscord(out)

SpecMain == MainInit /\ [][MainNext]_vars

ConfigLoaded == cli.loads = 1 /\ Load(cli.world).err = "nil"

\* C26: the Config that Load returned is not written for the rest of the
\* run: in every later state it is what Load resolved, also when --url,
\* --channel or --guild overrides one of its values for the command.
C26_ConfigImmutable ==
    ConfigLoaded => cli.cfg = Load(cli.world).cfg

\* The command ran with a base URL given by --url, and the Config still
\* holds the URL that Load resolved.
C26_Witness ==
    /\ ConfigLoaded
    /\ cli.pc = "exited"
    /\ cli.ops = 1
    /\ cli.client.kind = "cal"
    /\ cli.client.baseURL = FlagURL
    /\ cli.cfg.CalURL # FlagURL
    /\ cli.reqs # << >>

\* `pylon cal event add` (or `create`) ran with `--url U` at place i of its
\* flags, U being the event's URL, and sent its request.
EventAddSent ==
    /\ cli.pc = "exited"
    /\ cli.op = "CreateEvent"
    /\ cli.reqs # << >>
    /\ Len(cli.argv) >= 3
    /\ cli.argv[1] = <<"cal">> /\ cli.argv[2] = <<"event">>
    /\ cli.argv[3] \in { <<"add">>, <<"create">> }

URLFlagGiven ==
    \E i \in 4..(Len(cli.argv) - 1) :
        cli.argv[i] = <<"--", "url">> /\ cli.argv[i + 1] = EventURL

\* The value of the string member `name` of the JSON object body, as text;
\* <<"absent">> when the object has no such member.
MemberValue(body, name) ==
    IF \A k \in 1..Len(body) : body[k] # name THEN <<"absent">>
    ELSE LET k == CHOOSE k \in 1..Len(body) : body[k] = name
             end == CHOOSE j \in (k + 3)..Len(body) :
                        body[j] = "\"" /\ \A h \in (k + 3)..(j - 1) : body[h] # "\""
         IN [i \in 1..(end - k - 3) |-> unescapeChar(body[k + 2 + i])]

\* C27: when `pylon cal event add` is given `--url U` among its flags, the
\* create-event request carries url = U and is sent to the base URL resolved
\* from the configuration.
C27_EventURLFlag ==
    (EventAddSent /\ URLFlagGiven) =>
        /\ MemberValue(cli.reqs[1].body, "\"url\"") = EventURL
        /\ cli.reqs[1].url = cli.cfg.CalURL \o <<"/api/events">>

\* `pylon cal event add` (or `create`) has ended.
EventAddEnded ==
    /\ cli.pc = "exited"
    /\ cli.event.kind # "none"

\* C28: whatever its arguments, parseEventFlags ends in a call of fatal or
\* in a returned request, never in a read of the arguments past their end.
C28_NoReadPastEnd ==
    EventAddEnded =>
        cli.event.kind \in { "request", "fatal: unknown flag", "fatal: --feed is required",
                             "fatal: --summary is required", "fatal: --start is required" }

(***************************************************************************)
(* Claims about sections and repeated keys (specifications SpecParse and   *)
(* SpecParseFile).                                                         *)
(***************************************************************************)
\* The section the last line read stands under: the name of the header seen
\* most recently before it, << >> when there is none.
SectionOfLast == SectionAt(parser.input, Len(parser.input))

\* C29: parsing is scoped by section, in file order: a key = value line is
\* applied under the section header seen most recently before it, and under
\* no other; a key = value line before the first header changes nothing; and
\* under the header of an unknown section no line changes a field.  Lines
\* that are not key = value lines change no field.
C29_SectionScoped ==
    parser.input # << >> =>
        LET text == parser.input[Len(parser.input)]
            ch == Changed(parser.cfg, parser.last.before)
        IN /\ parser.last.called => parser.last.section = SectionOfLast
           /\ IsHeaderLine(text) => parser.section = HeaderName(text)
           /\ ~IsHeaderLine(text) => parser.section = SectionOfLast
           /\ SectionOfLast = EmptyStr => ch = {}
           /\ SectionOfLast \notin KnownSections => ch = {}
           /\ ch # {} =>
                 /\ IsKeyLine(text)
                 /\ <<SectionOfLast, KeyText(text)>> \in Recognized
                 /\ ch = {FieldOf(SectionOfLast, KeyText(text))}

\* After [cal] and the header of an unknown section, a line with the key url
\* was read and left the Config as it was.
C29_Witness ==
    /\ Len(parser.input) = 3
    /\ IsHeaderLine(parser.input[1]) /\ HeaderName(parser.input[1]) = <<"cal">>
    /\ IsHeaderLine(parser.input[2]) /\ HeaderName(parser.input[2]) \notin KnownSections
    /\ parser.last.called
    /\ parser.last.key = <<"url">>
    /\ parser.last.value # parser.cfg.CalURL
    /\ parser.cfg = parser.last.before

\* The lines of the file parsed that assign field f.
AssignmentsOf(f) == {i \in 1..Len(parser.input) : AssignsAt(parser.input, i, f)}

\* The value line i of the file parsed gives its key.
AssignedAt(i) ==
    LET text == parser.input[i]
    IN NonBlank(SubSeq(text, FirstEquals(text) + 1, Len(text)))

\* The last of a non-empty set of line numbers.
LastOf(is) == CHOOSE j \in is : \A k \in is : k <= j

\* C30: when a file assigns the same recognised (section, key) more than once,
\* in one block or in repeated blocks of the same section, the field holds the
\* value of the last assignment in file order (an empty one included); a field
\* the file does not assign keeps the value it had.
C30_LastAssignmentWins ==
    parser.pc = "parsed" =>
        \A f \in Fields :
            parser.cfg[f] = IF AssignmentsOf(f) = {} THEN parser.start[f]
                            ELSE AssignedAt(LastOf(AssignmentsOf(f)))

\* A file of two [cal] blocks, each assigning url, with different values, has
\* been parsed and the URL is that of the second block.
C30_Witness ==
    /\ parser.pc = "parsed"
    /\ Len(parser.input) = 4
    /\ IsHeaderLine(parser.input[1]) /\ IsHeaderLine(parser.input[3])
    /\ AssignmentsOf("CalURL") = {2, 4}
    /\ AssignedAt(2) # AssignedAt(4)
    /\ AssignedAt(2) # parser.start.CalURL
    /\ parser.cfg.CalURL = AssignedAt(4)

====
